---- MODULE Spec2Model ----
(***************************************************************************)
(* A model of the mpy-workbench extension: the connection gate             *)
(* (withAutoSuspend, the REPL terminal), the mpremote subprocess runner    *)
(* (runMpremote, ConnectionManager), the file-tree caches, the diff engine *)
(* (checkDiffs) and the transfer loops (syncBaseline and the others).      *)
(*                                                                         *)
(* Each subsystem has its own specification over the shared variables:     *)
(*   SpecQueue     the operation queue and the REPL terminal               *)
(*   SpecRun       runMpremote and the connection manager                  *)
(*   SpecCache     the in-memory tree cache and tree-paths.json            *)
(*   SpecDiff      checkDiffs on bounded local and board trees             *)
(*   SpecTransfer  the baseline upload and the download/diff loops         *)
(* A specification leaves the other subsystems' variables at their         *)
(* initial values.                                                         *)
(***************************************************************************)
EXTENDS Integers, Sequences, FiniteSets, TLC

VARIABLES
  \* ---- connection gate (extension.ts, activate) ----
  opQueue,        \* the promise opQueue points at: 0 = a resolved promise, i = operation i's promise
  opPc,           \* per operation: where its withAutoSuspend call stands
  opPred,         \* per operation: the promise its .then() was chained on
  opWasOpen,      \* per operation: the wasOpen local
  opPreempt,      \* per operation: the opts.preempt it was submitted with
  opVia,          \* per operation, history: the wrapper its command called
  usageOpQueue,   \* UsageTree.opQueue, like opQueue
  fnCalls,        \* how many times each operation's fn() was called
  skipOwner,      \* the operation of the view command that set skipIdleOnce
  opParent,       \* the operation whose body made this call, 0 for a command
  opBypass,       \* for an operation that skipIdleOnce let through: skipOwner then
  skipIdleOnce,   \* the one-shot flag
  enabled,        \* configuration mpyWorkbench.serialAutoSuspend
  connect,        \* configuration mpyWorkbench.connect
  replTerminal,   \* the REPL terminal exists and is alive (isReplOpen)
  replAttached,   \* the mpremote session inside the terminal holds the serial line
  \* ---- runMpremote (mpremote.ts) ----
  callPc,         \* per runMpremote call: its position
  callPort,       \* per call: the port after "connect" in its args
  callRetry,      \* per call: opts.retryOnFailure !== false
  attempt,        \* per call: the attempt counter
  launches,       \* per call: how many subprocesses it has launched
  killed,         \* per call: its running child has been sent SIGKILL
  activeConnections, \* ConnectionManager.activeConnections
  currentChild,   \* the module-level currentChild: a call id, or 0 for null
  timerMs,        \* per call: the delay of its pending setTimeout, 0 with none pending
  lastError,      \* per call, history: what the callback of its last subprocess saw
  atCancel,       \* history: the subprocesses that were running when cancelAll last ran
  \* ---- the tree caches (mpremote.ts) ----
  now,            \* Date.now(), in ms since activation
  boardVersion,   \* the board's file system: the number of mutations applied to it
  globalFileTreeCache, \* Null, or the board version the cached tree was parsed from
  lastTreeUpdate, \* the time the cache was populated; 0 after a clear
  treePathsFile,  \* .mpy-workbench/tree-paths.json: exists, the version it holds, its mtime
  mutPc,          \* the mutating call in flight: "idle", "running", "applied", "failed"
  mutOp,          \* which mutating function it is
  listPc,         \* the listing call in flight: "idle", "populating", "fetched", "live",
                  \* "parsed", and for lsTyped "direct", "directParsed", "fallback"
  listOp,         \* which listing function it is
  listSnap,       \* the board version its fs tree subprocess printed
  known,          \* history: the newest board version a returned mutation is known to have made
  lastReturn,     \* history: the last return of a mutating function
  lastListing,    \* history: the last answer of a listing function
  \* ---- checkDiffs (boardOperations.ts) and its inputs ----
  rootPath,       \* the setting mpyWorkbench.rootPath
  workspace,      \* the manifest of the local folder: relative path -> size, Null = no such file
  unreadable,     \* manifest files whose fs.stat fails
  ignored,        \* the relative paths the ignore matcher rejects
  board,          \* the board's files: device path -> size, Null = no such file
  diffRuns,       \* how many times checkDiffs has completed
  diffs,          \* decorations._originalDiffs
  localOnly,      \* decorations._originalLocalOnly
  boardOnly,      \* decorations._originalBoardOnly
  prevDiffs,      \* history: the three sets the run before the last one stored
  \* ---- the transfers (boardOperations.ts, extension.ts) ----
  localGone,      \* manifest files deleted from the local folder since the manifest was built
  boardDirs,      \* the directories that exist on the board
  basePc,         \* syncBaseline: its position
  files,          \* syncBaseline: Object.keys(man.files)
  sortedDirectories, \* syncBaseline: the directory plan
  dirIdx,         \* syncBaseline: the index of the current directory loop
  attempts,       \* syncBaseline: the attempts made on the current directory
  failedDirectories,    \* syncBaseline
  verificationFailures, \* syncBaseline
  stillMissing,   \* syncBaseline
  validFiles,     \* syncBaseline
  missingFiles,   \* syncBaseline
  fileIdx,        \* syncBaseline: the index of the current file loop
  uploaded,       \* syncBaseline
  failed,         \* syncBaseline
  copyLog,        \* history: the cpToDevice calls of the baseline, in order, with their outcome
  loopKind,       \* the download or diff transfer in progress
  loopPc,         \* its position: "idle", "running", "completed", "thrown"
  toTransfer,     \* the device paths its loop goes through
  loopIdx,        \* the index of its loop
  loopAttempted,  \* history: the device paths it has called a copy for
  loopTransferred, \* history: the device paths whose copy succeeded
  \* ---- the round trip: syncBaseline, then syncBaselineFromBoard ----
  tripPc,         \* "idle", "uploaded", "downloaded", "thrown"
  statsSource,    \* what listTreeStats answered from: "file" (tree-paths.json) or "tree"
  folder,         \* the folder downloaded into: a set of [rel, size]
  \* ---- deleteAny and deleteDirectoryRecursive (mpremote.ts) ----
  delPc,          \* "idle", "recursive", "returned", "thrown"
  delTree,        \* the device paths that exist on the board
  delTarget,      \* the argument p of deleteAny
  delStack,       \* the deleteDirectoryRecursive calls in progress, innermost last
  delLog,         \* history: the rm and rmdir commands issued, in order
  delError,       \* history: the call and the message the try block of deleteAny failed with
  recursiveRuns,  \* history: how many times deleteAny called deleteDirectoryRecursive
  \* ---- cpToDevice and uploadReplacing (mpremote.ts) ----
  cpPc,           \* "idle", "mkdirs", "retry", "returned", "thrown"
  cpFn,           \* which of the two functions runs
  cpTarget,       \* the argument devicePath
  cpDirs,         \* the directories that exist on the board
  cpPending,      \* the directory levels the catch block has still to create
  cpLog,          \* history: the mkdir and cp commands issued, in order, with their outcome
  cpError,        \* history: the message class of the first copy's error
  \* ---- the parsers of the tool's tree output (mpremote.ts) ----
  treeOutput,     \* the lines "fs tree" printed
  parsePc,        \* "idle", "parsed"
  parsedLines,    \* the result of parseTreeLines
  filesAndSizes,  \* the result of the loop of getBoardFilesAndSizes
  \* ---- the path mappings (boardOperations.ts, mpremoteCommands.ts) ----
  mapPc,          \* "idle", "mapped"
  mapFn,          \* whose toDevicePath was used
  mapRel,         \* a relative path
  mapDevice,      \* toDevicePath(mapRel, rootPath)
  mapRelBack,     \* toLocalRelative(mapDevice, rootPath)
  mapDeviceBack,  \* toDevicePath(mapRelBack, rootPath)
  statsDone,      \* the sources listTreeStats has answered from: "file", "tree"
  statsThrown,    \* listTreeStats threw
  statsOf,        \* what listTreeStats returned, by source
  nodeCache,      \* Esp32Tree._nodeCache: per directory, has an entry and its nodes
  listedDirs,     \* history: the directories whose entry a listing has set
  lastChildren    \* what getChildNodes returned last

gateVars == <<opQueue, opPc, opPred, opWasOpen, opPreempt, opVia, usageOpQueue, fnCalls,
              skipOwner, opBypass, opParent,
              skipIdleOnce, enabled,
              connect, replTerminal, replAttached>>
runVars  == <<callPc, callPort, callRetry, attempt, launches, killed,
              activeConnections, currentChild, timerMs, lastError, atCancel>>
cacheVars == <<now, boardVersion, globalFileTreeCache, lastTreeUpdate, treePathsFile,
               mutPc, mutOp, listPc, listOp, listSnap, known, lastReturn, lastListing>>
diffVars == <<rootPath, workspace, unreadable, ignored, board, diffRuns, diffs,
              localOnly, boardOnly, prevDiffs>>
baseVars == <<basePc, files, sortedDirectories, dirIdx, attempts, failedDirectories,
              verificationFailures, stillMissing, validFiles, missingFiles, fileIdx,
              uploaded, failed, copyLog>>
loopVars == <<loopKind, loopPc, toTransfer, loopIdx, loopAttempted, loopTransferred>>
transferVars == <<localGone, boardDirs, baseVars, loopVars>>
tripVars == <<tripPc, statsSource, folder>>
deleteVars == <<delPc, delTree, delTarget, delStack, delLog, delError, recursiveRuns>>
copyVars == <<cpPc, cpFn, cpTarget, cpDirs, cpPending, cpLog, cpError>>
parseVars == <<treeOutput, parsePc, parsedLines, filesAndSizes>>
mapVars  == <<mapPc, mapFn, mapRel, mapDevice, mapRelBack, mapDeviceBack>>
statsVars == <<statsDone, statsThrown, statsOf>>
treeVars == <<nodeCache, listedDirs, lastChildren>>
restVars == <<parseVars, mapVars, statsVars, treeVars>>
fsVars   == <<tripVars, deleteVars, copyVars, restVars>>
vars     == <<gateVars, runVars, cacheVars, diffVars, transferVars, fsVars>>
notGate  == <<runVars, cacheVars, diffVars, transferVars, fsVars>>
notRun   == <<gateVars, cacheVars, diffVars, transferVars, fsVars>>
notGateRun == <<cacheVars, diffVars, transferVars, fsVars>>
notCache == <<gateVars, runVars, diffVars, transferVars, fsVars>>
notDiff  == <<gateVars, runVars, cacheVars, transferVars, fsVars>>
notTransfer == <<gateVars, runVars, cacheVars, diffVars, fsVars>>
notFs    == <<gateVars, runVars, cacheVars, transferVars>>

(***************************************************************************)
(* Bounds of the model.                                                    *)
(***************************************************************************)
MaxOps   == 3
MaxCalls == 2
MaxMutations == 2
MaxNow   == 40000
MaxDiffRuns == 2
MaxSize  == 1
MaxBatch == 3
MaxPlanFiles == 3

Ops   == 1..MaxOps
Calls == 1..MaxCalls
Ports == {"p1", "p2"}

(***************************************************************************)
(* The REPL terminal (mpremoteCommands).                                   *)
(***************************************************************************)
isReplOpen == replTerminal

\* disconnectReplTerminal: Ctrl-X is sent to the terminal, the session in it
\* exits and lets go of the serial line. The value is the new replAttached.
disconnectReplTerminal == IF replTerminal THEN FALSE ELSE replAttached

\* restartReplInExistingTerminal: "mpremote connect <device>" is typed into
\* the terminal again, unless there is no terminal or no concrete port.
restartReplInExistingTerminal ==
  IF replTerminal /\ connect # "auto" THEN TRUE ELSE replAttached

\* openReplTerminal / getReplTerminal: a new terminal running mpremote
\* connect. The user opens the REPL between operations.
openReplTerminal ==
  /\ ~replTerminal
  /\ connect # "auto"
  /\ \A i \in Ops : opPc[i] \in {"new", "done"}
  /\ replTerminal' = TRUE
  /\ replAttached' = TRUE
  /\ UNCHANGED <<opQueue, opPc, opPred, opWasOpen, opPreempt, skipIdleOnce, enabled, connect>>
  /\ UNCHANGED <<opVia, usageOpQueue, fnCalls, skipOwner, opBypass, opParent>>
  /\ UNCHANGED notGate

\* closeReplTerminal (mpyWorkbench.stopSerial): the terminal is disposed.
closeReplTerminal ==
  /\ replTerminal
  /\ replTerminal' = FALSE
  /\ replAttached' = FALSE
  /\ UNCHANGED <<opQueue, opPc, opPred, opWasOpen, opPreempt, skipIdleOnce, enabled, connect>>
  /\ UNCHANGED <<opVia, usageOpQueue, fnCalls, skipOwner, opBypass, opParent>>
  /\ UNCHANGED notGate

\* mpyWorkbench.setPort / pickPort: a concrete port is configured.
setPort ==
  /\ connect = "auto"
  /\ connect' = "p1"
  /\ UNCHANGED <<opQueue, opPc, opPred, opWasOpen, opPreempt, skipIdleOnce, enabled,
                 replTerminal, replAttached>>
  /\ UNCHANGED <<opVia, usageOpQueue, fnCalls, skipOwner, opBypass, opParent>>
  /\ UNCHANGED notGate

\* The user flips the mpyWorkbench.serialAutoSuspend setting.
setSerialAutoSuspend ==
  /\ \A i \in Ops : opPc[i] = "new"
  /\ enabled' = ~enabled
  /\ UNCHANGED <<opQueue, opPc, opPred, opWasOpen, opPreempt, skipIdleOnce, connect,
                 replTerminal, replAttached>>
  /\ UNCHANGED <<opVia, usageOpQueue, fnCalls, skipOwner, opBypass, opParent>>
  /\ UNCHANGED notGate

(***************************************************************************)
(* The operation queue: withAutoSuspend.                                   *)
(*   opPc: "new"       not submitted yet                                   *)
(*         "queued"    chained on opPred, its callback has not run         *)
(*         "detaching" disconnectReplTerminal's 200 ms wait                *)
(*         "ensureIdle" awaiting ensureIdle()                              *)
(*         "body"      awaiting fn()                                       *)
(*         "restart"   in finally, before the restart command is typed     *)
(*         "settling"  restartReplInExistingTerminal's 200 ms wait         *)
(*         "direct"    awaiting fn() on the path that skips the queue      *)
(*         "done"      its promise is settled                              *)
(***************************************************************************)
\* The operation that is submitted next: the one of the command that a view
\* wrapper executes right after setSkipIdleOnce().
nextOp == IF \E i \in Ops : opPc[i] = "new"
          THEN CHOOSE i \in Ops : opPc[i] = "new" /\ \A j \in Ops : j < i => opPc[j] # "new"
          ELSE 0

\* mpyWorkbench.runFromView and the ...FromView wrappers: setSkipIdleOnce(),
\* then executeCommand(cmd).
setSkipIdleOnce ==
  /\ ~skipIdleOnce
  /\ skipIdleOnce' = TRUE
  /\ skipOwner' = nextOp
  /\ UNCHANGED <<opQueue, opPc, opPred, opWasOpen, opPreempt, enabled, connect,
                 replTerminal, replAttached>>
  /\ UNCHANGED <<opVia, usageOpQueue, fnCalls, opBypass, opParent>>
  /\ UNCHANGED notGate

\* Without .catch(() => {}).then(...) on the operation before: only the
\* resolved promise lets a callback start.
resolvedPromiseOnly(p) == p = 0

\* A promise is settled: the resolved promise, or an operation that is done.
\* opQueue.catch(() => {}) makes a rejected predecessor count like a resolved one.
Settled(p) == IF p = 0 THEN TRUE ELSE opPc[p] = "done"

\* The queue without the reset of a preempting call.
notPreempted(queue, preempt) == queue

\* if (opts.preempt !== false) opQueue = Promise.resolve(): the promise the
\* call goes on with.
preempted(queue, preempt) == IF preempt THEN 0 ELSE queue

\* The synchronous part of withAutoSuspend(fn, {preempt}), called by the
\* body of operation parent, or by a command handler (parent = 0).
withAutoSuspendFrom(i, preempt, parent) ==
  /\ opPc[i] = "new"
  /\ opParent' = [opParent EXCEPT ![i] = parent]
  /\ \A j \in Ops : j < i => opPc[j] # "new"
  /\ opPreempt' = [opPreempt EXCEPT ![i] = preempt]
  /\ LET q == preempted(opQueue, preempt) IN
     IF ~enabled \/ skipIdleOnce
     THEN /\ skipIdleOnce' = FALSE
          /\ skipOwner' = 0
          /\ opBypass' = [opBypass EXCEPT ![i] =
                            IF enabled /\ skipIdleOnce THEN skipOwner ELSE 0]
          /\ opPc' = [opPc EXCEPT ![i] = "direct"]
          /\ fnCalls' = [fnCalls EXCEPT ![i] = @ + 1]
          /\ opQueue' = q
          /\ UNCHANGED opPred
     ELSE /\ opPred' = [opPred EXCEPT ![i] = q]
          /\ opQueue' = i
          /\ opPc' = [opPc EXCEPT ![i] = "queued"]
          /\ UNCHANGED <<skipIdleOnce, fnCalls, skipOwner, opBypass>>
  /\ opVia' = [opVia EXCEPT ![i] = "withAutoSuspend"]
  /\ UNCHANGED <<opWasOpen, enabled, connect, replTerminal, replAttached, usageOpQueue>>
  /\ UNCHANGED notGate

\* withAutoSuspend(fn, {preempt}) called by a command handler.
withAutoSuspend(i, preempt) == withAutoSuspendFrom(i, preempt, 0)

\* An inner call with { preempt: false }.
preemptFalse == FALSE

\* opts = {}: opts.preempt !== false holds for a call without options.
defaultPreempt == TRUE

\* The calls that the body of operation p has made and that are not settled.
pendingInner(p) == {j \in Ops : opParent[j] = p /\ opPc[j] # "done"}

\* The body of a running operation calls withAutoSuspend(() => mp.cpToDevice(..))
\* without options and awaits it, as the upload loop of mpyWorkbench.syncBaseline
\* does for each file.
innerWithAutoSuspend(i, parent) ==
  /\ parent # i
  /\ opVia[parent] = "withAutoSuspend"
  /\ opPc[parent] \in {"body", "direct"}
  /\ pendingInner(parent) = {}
  /\ withAutoSuspendFrom(i, defaultPreempt, parent)

\* BoardOperations.withAutoSuspend(fn): it awaits fn() at once, whatever the
\* setting and the options are.
boardOperationsWithAutoSuspend(i) ==
  /\ opPc[i] = "new"
  /\ \A j \in Ops : j < i => opPc[j] # "new"
  /\ opPc' = [opPc EXCEPT ![i] = "direct"]
  /\ opVia' = [opVia EXCEPT ![i] = "BoardOperations.withAutoSuspend"]
  /\ fnCalls' = [fnCalls EXCEPT ![i] = @ + 1]
  /\ UNCHANGED <<skipOwner, opBypass, opParent>>
  /\ UNCHANGED <<opQueue, opPred, opWasOpen, opPreempt, usageOpQueue, skipIdleOnce,
                 enabled, connect, replTerminal, replAttached>>
  /\ UNCHANGED notGate

\* UsageTree.withAutoSuspend(fn, {preempt}): a queue of its own, this.opQueue.
\* Its skipIdleOnce is never set, and its callback waits preListDelayMs
\* where the extension's awaits ensureIdle().
usageWithAutoSuspend(i, preempt) ==
  /\ opPc[i] = "new"
  /\ \A j \in Ops : j < i => opPc[j] # "new"
  /\ opPreempt' = [opPreempt EXCEPT ![i] = preempt]
  /\ opVia' = [opVia EXCEPT ![i] = "UsageTree.withAutoSuspend"]
  /\ LET q == preempted(usageOpQueue, preempt) IN
     IF ~enabled
     THEN /\ opPc' = [opPc EXCEPT ![i] = "direct"]
          /\ fnCalls' = [fnCalls EXCEPT ![i] = @ + 1]
          /\ usageOpQueue' = q
          /\ UNCHANGED opPred
     ELSE /\ opPred' = [opPred EXCEPT ![i] = q]
          /\ usageOpQueue' = i
          /\ opPc' = [opPc EXCEPT ![i] = "queued"]
          /\ UNCHANGED fnCalls
  /\ UNCHANGED <<skipOwner, opBypass, opParent>>
  /\ UNCHANGED <<opQueue, opWasOpen, skipIdleOnce, enabled, connect, replTerminal,
                 replAttached>>
  /\ UNCHANGED notGate

\* mpyWorkbench.renameNode: await mp.mvOnDevice(oldPath, newPath), in no
\* wrapper at all.
renameNode(i) ==
  /\ opPc[i] = "new"
  /\ \A j \in Ops : j < i => opPc[j] # "new"
  /\ opPc' = [opPc EXCEPT ![i] = "direct"]
  /\ opVia' = [opVia EXCEPT ![i] = "none"]
  /\ fnCalls' = [fnCalls EXCEPT ![i] = @ + 1]
  /\ UNCHANGED <<skipOwner, opBypass, opParent>>
  /\ UNCHANGED <<opQueue, opPred, opWasOpen, opPreempt, usageOpQueue, skipIdleOnce,
                 enabled, connect, replTerminal, replAttached>>
  /\ UNCHANGED notGate

\* The .then() callback starts once the promise it was chained on is settled.
queuedStart(i) ==
  /\ opPc[i] = "queued"
  /\ Settled(opPred[i])
  /\ opWasOpen' = [opWasOpen EXCEPT ![i] = isReplOpen]
  /\ IF isReplOpen
     THEN /\ replAttached' = disconnectReplTerminal
          /\ opPc' = [opPc EXCEPT ![i] = "detaching"]
     ELSE /\ opPc' = [opPc EXCEPT ![i] = "ensureIdle"]
          /\ UNCHANGED replAttached
  /\ UNCHANGED <<opQueue, opPred, opPreempt, skipIdleOnce, enabled, connect, replTerminal>>
  /\ UNCHANGED <<opVia, usageOpQueue, fnCalls, skipOwner, opBypass, opParent>>
  /\ UNCHANGED notGate

detachDone(i) ==
  /\ opPc[i] = "detaching"
  /\ opPc' = [opPc EXCEPT ![i] = "ensureIdle"]
  /\ UNCHANGED <<opQueue, opPred, opWasOpen, opPreempt, skipIdleOnce, enabled, connect,
                 replTerminal, replAttached>>
  /\ UNCHANGED <<opVia, usageOpQueue, fnCalls, skipOwner, opBypass, opParent>>
  /\ UNCHANGED notGate

\* ensureIdle returns (its mp.ls("/") is in a try/catch) and fn() is called.
ensureIdleDone(i) ==
  /\ opPc[i] = "ensureIdle"
  /\ opPc' = [opPc EXCEPT ![i] = "body"]
  /\ fnCalls' = [fnCalls EXCEPT ![i] = @ + 1]
  /\ UNCHANGED <<opQueue, opPred, opWasOpen, opPreempt, skipIdleOnce, enabled, connect,
                 replTerminal, replAttached>>
  /\ UNCHANGED <<opVia, usageOpQueue, skipOwner, opBypass, opParent>>
  /\ UNCHANGED notGate

\* fn() settles, resolved or rejected alike: the finally block runs.
bodyDone(i) ==
  /\ opPc[i] \in {"body", "direct"}
  /\ pendingInner(i) = {}
  /\ opPc' = [opPc EXCEPT ![i] =
       IF opPc[i] = "body" /\ opWasOpen[i] THEN "restart" ELSE "done"]
  /\ UNCHANGED <<opQueue, opPred, opWasOpen, opPreempt, skipIdleOnce, enabled, connect,
                 replTerminal, replAttached>>
  /\ UNCHANGED <<opVia, usageOpQueue, fnCalls, skipOwner, opBypass, opParent>>
  /\ UNCHANGED notGate

restartRepl(i) ==
  /\ opPc[i] = "restart"
  /\ replAttached' = restartReplInExistingTerminal
  /\ opPc' = [opPc EXCEPT ![i] = "settling"]
  /\ UNCHANGED <<opQueue, opPred, opWasOpen, opPreempt, skipIdleOnce, enabled, connect,
                 replTerminal>>
  /\ UNCHANGED <<opVia, usageOpQueue, fnCalls, skipOwner, opBypass, opParent>>
  /\ UNCHANGED notGate

restartDone(i) ==
  /\ opPc[i] = "settling"
  /\ opPc' = [opPc EXCEPT ![i] = "done"]
  /\ UNCHANGED <<opQueue, opPred, opWasOpen, opPreempt, skipIdleOnce, enabled, connect,
                 replTerminal, replAttached>>
  /\ UNCHANGED <<opVia, usageOpQueue, fnCalls, skipOwner, opBypass, opParent>>
  /\ UNCHANGED notGate

(***************************************************************************)
(* ConnectionManager (mpremote.ts).  An entry of activeConnections is a    *)
(* record; present = FALSE stands for "no entry for this port".  stale     *)
(* stands for now - lastUsed >= CONNECTION_TIMEOUT.                        *)
(***************************************************************************)
NoConnection ==
  [present |-> FALSE, stale |-> FALSE, isHealthy |-> FALSE, operationInProgress |-> FALSE]

getConnection(conns, port) ==
  IF conns[port].present /\ ~conns[port].stale /\ conns[port].isHealthy
  THEN conns
  ELSE [conns EXCEPT ![port] =
          [present |-> TRUE, stale |-> FALSE, isHealthy |-> TRUE,
           operationInProgress |-> FALSE]]

markUnhealthy(conns, port) ==
  IF conns[port].present
  THEN [conns EXCEPT ![port].isHealthy = FALSE]
  ELSE conns

markHealthy(conns, port) ==
  IF conns[port].present
  THEN [conns EXCEPT ![port].isHealthy = TRUE,
                     ![port].stale = FALSE,
                     ![port].operationInProgress = FALSE]
  ELSE conns

markOperationStarted(conns, port) ==
  IF conns[port].present
  THEN [conns EXCEPT ![port].operationInProgress = TRUE]
  ELSE conns

isOperationInProgress(conns, port) ==
  IF conns[port].present THEN conns[port].operationInProgress ELSE FALSE

markOperationCompleted(conns, port) ==
  IF conns[port].present
  THEN [conns EXCEPT ![port].operationInProgress = FALSE]
  ELSE conns

\* CONNECTION_TIMEOUT passes without the entry being used.
connectionAges(port) ==
  /\ activeConnections[port].present
  /\ ~activeConnections[port].stale
  /\ activeConnections' = [activeConnections EXCEPT ![port].stale = TRUE]
  /\ UNCHANGED <<callPc, callPort, callRetry, attempt, launches, killed, currentChild,
                 timerMs, lastError, atCancel>>
  /\ UNCHANGED notRun

\* The health-check timer: cleanup() deletes the entries not used for CONNECTION_TIMEOUT.
cleanup ==
  /\ \E port \in Ports : activeConnections[port].present /\ activeConnections[port].stale
  /\ activeConnections' =
       [port \in Ports |->
          IF activeConnections[port].present /\ activeConnections[port].stale
          THEN NoConnection ELSE activeConnections[port]]
  /\ UNCHANGED <<callPc, callPort, callRetry, attempt, launches, killed, currentChild,
                 timerMs, lastError, atCancel>>
  /\ UNCHANGED notRun

(***************************************************************************)
(* runMpremote.                                                            *)
(*   callPc: "new"      not called yet                                     *)
(*           "polling"  setTimeout(executeCommand, 100): the port was busy *)
(*           "running"  its subprocess is running                          *)
(*           "backoff"  setTimeout(executeCommand, 500 * attempt)          *)
(*           "resolved", "rejected"                                        *)
(***************************************************************************)
\* What the exec callback can see: success, or the kind of error message.
Outcomes == {"ok", "device not configured", "serial read failed", "connection failed", "other"}
\* The messages that mark the connection unhealthy ...
Unhealthy == {"device not configured", "connection failed"}
\* ... and the transient ones, which are retried.
Transient == {"device not configured", "serial read failed"}

\* executeCommand, from its attempt++ to exec() or to the 100 ms re-poll.
executeCommand(c, port) ==
  /\ attempt' = [attempt EXCEPT ![c] = @ + 1]
  /\ IF isOperationInProgress(activeConnections, port)
     THEN /\ callPc' = [callPc EXCEPT ![c] = "polling"]
          /\ timerMs' = [timerMs EXCEPT ![c] = 100]
          /\ UNCHANGED <<activeConnections, launches, killed, currentChild>>
     ELSE /\ activeConnections' =
               markHealthy(markOperationStarted(getConnection(activeConnections, port), port), port)
          /\ callPc' = [callPc EXCEPT ![c] = "running"]
          /\ launches' = [launches EXCEPT ![c] = @ + 1]
          /\ killed' = [killed EXCEPT ![c] = FALSE]
          /\ currentChild' = c
          /\ timerMs' = [timerMs EXCEPT ![c] = 0]
  /\ UNCHANGED <<lastError, atCancel>>

\* A caller invokes runMpremote(["connect", port, ...], {retryOnFailure}).
runMpremote(c, port, retry) ==
  /\ callPc[c] = "new"
  /\ \A d \in Calls : d < c => callPc[d] # "new"
  /\ callPort' = [callPort EXCEPT ![c] = port]
  /\ callRetry' = [callRetry EXCEPT ![c] = retry]
  /\ executeCommand(c, port)
  /\ UNCHANGED notRun

\* A setTimeout(executeCommand, ...) fires.
timerFires(c) ==
  /\ callPc[c] \in {"polling", "backoff"}
  /\ executeCommand(c, callPort[c])
  /\ UNCHANGED <<callPort, callRetry>>
  /\ UNCHANGED notRun

\* The callback's retry test, without the test for a transient message.
shouldRetryAny(a, maxRetries, out) == a <= maxRetries

\* The callback's retry test.
shouldRetry(a, maxRetries, out) == a <= maxRetries /\ out \in Transient

\* The subprocess exits and exec's callback runs.
childExits(c, out) ==
  LET port == callPort[c]
      maxRetries == IF callRetry[c] THEN 2 ELSE 0
  IN
  /\ callPc[c] = "running"
  /\ IF killed[c] THEN out = "other" ELSE TRUE
  /\ currentChild' = IF currentChild = c THEN 0 ELSE currentChild
  /\ IF out = "ok"
     THEN /\ activeConnections' = markHealthy(activeConnections, port)
          /\ callPc' = [callPc EXCEPT ![c] = "resolved"]
          /\ UNCHANGED timerMs
     ELSE /\ activeConnections' =
               markOperationCompleted(
                 IF out \in Unhealthy THEN markUnhealthy(activeConnections, port)
                                      ELSE activeConnections, port)
          /\ callPc' = [callPc EXCEPT ![c] =
               IF shouldRetry(attempt[c], maxRetries, out) THEN "backoff" ELSE "rejected"]
          /\ timerMs' = [timerMs EXCEPT ![c] =
               IF shouldRetry(attempt[c], maxRetries, out) THEN 500 * attempt[c] ELSE 0]
  /\ lastError' = [lastError EXCEPT ![c] = out]
  /\ UNCHANGED <<callPort, callRetry, attempt, launches, killed, atCancel>>
  /\ UNCHANGED notRun

\* cancelAll: currentChild?.kill('SIGKILL'); currentChild = null.
cancelAll ==
  /\ killed' = [c \in Calls |-> IF c = currentChild THEN TRUE ELSE killed[c]]
  /\ currentChild' = 0
  /\ atCancel' = { <<c, launches[c]>> : c \in { d \in Calls : callPc[d] = "running" /\ ~killed[d] } }
  /\ UNCHANGED <<callPc, callPort, callRetry, attempt, launches, activeConnections,
                 timerMs, lastError>>

\* The command mpyWorkbench.cancelAllTasks.
cancelAllTasks ==
  /\ cancelAll
  /\ opQueue' = 0
  /\ UNCHANGED <<opPc, opPred, opWasOpen, opPreempt, skipIdleOnce, enabled, connect,
                 replTerminal, replAttached>>
  /\ UNCHANGED <<opVia, usageOpQueue, fnCalls, skipOwner, opBypass, opParent>>
  /\ UNCHANGED notGateRun

(***************************************************************************)
(* The tree caches (mpremote.ts): globalFileTreeCache in memory and        *)
(* .mpy-workbench/tree-paths.json on disk.  The board's file system is     *)
(* stood for by its version: every mutation that the tool carries out      *)
(* makes a new version, and a parsed tree is the version it was read from. *)
(***************************************************************************)
Null == -1

TREE_CACHE_DURATION == 30000

\* listTreeStats' own freshness window for tree-paths.json.
TreePathsMaxAge == 30000

NoFile == [exists |-> FALSE, version |-> Null, mtime |-> 0]

\* The exported functions that change the board's file system ...
MutatingOps ==
  {"mkdir", "cpToDevice", "uploadReplacing", "deleteFile", "deleteAny",
   "deleteAllInPath", "mvOnDevice"}

\* ... and those of them that call clearFileTreeCache() before returning normally.
ClearsCache ==
  {"mkdir", "cpToDevice", "uploadReplacing", "deleteAny", "deleteAllInPath", "mvOnDevice"}

\* deleteAllInPath catches each failed removal and still returns normally.
ReturnsNormallyOnFailure == {"deleteAllInPath"}

ListingOps == {"lsTyped", "listTreeStats", "refreshFileTreeCache"}

isCacheValid ==
  IF globalFileTreeCache = Null THEN FALSE
  ELSE now - lastTreeUpdate < TREE_CACHE_DURATION

\* Time passes.
tick ==
  /\ now < MaxNow
  /\ now' = now + 10000
  /\ UNCHANGED <<boardVersion, globalFileTreeCache, lastTreeUpdate, treePathsFile,
                 mutPc, mutOp, listPc, listOp, listSnap, known, lastReturn, lastListing>>
  /\ UNCHANGED notCache

\* A mutating function is called.  With no concrete port it throws at once.
mutatingCall(op) ==
  /\ mutPc = "idle"
  /\ boardVersion < MaxMutations
  /\ mutOp' = op
  /\ IF connect = "auto"
     THEN /\ lastReturn' = [op |-> op, ok |-> FALSE, cacheNull |-> globalFileTreeCache = Null]
          /\ UNCHANGED mutPc
     ELSE /\ mutPc' = "running"
          /\ UNCHANGED lastReturn
  /\ UNCHANGED <<now, boardVersion, globalFileTreeCache, lastTreeUpdate, treePathsFile,
                 listPc, listOp, listSnap, known, lastListing>>
  /\ UNCHANGED notCache

\* Its mpremote subprocess does the work on the board, or fails.
mutatingTool(ok) ==
  /\ mutPc = "running"
  /\ IF ok
     THEN /\ boardVersion' = boardVersion + 1
          /\ mutPc' = "applied"
     ELSE /\ mutPc' = "failed"
          /\ UNCHANGED boardVersion
  /\ UNCHANGED <<now, globalFileTreeCache, lastTreeUpdate, treePathsFile,
                 mutOp, listPc, listOp, listSnap, known, lastReturn, lastListing>>
  /\ UNCHANGED notCache

\* clearFileTreeCache, as the new values of the two module variables.
clearFileTreeCache == [cache |-> Null, updated |-> 0]

\* The function's continuation after the subprocess: it clears the cache
\* (where the code does) and returns, or throws.
mutatingReturn ==
  /\ mutPc \in {"applied", "failed"}
  /\ LET normal == mutPc = "applied" \/ mutOp \in ReturnsNormallyOnFailure
         clears == normal /\ mutOp \in ClearsCache
         cache1 == IF clears THEN clearFileTreeCache.cache ELSE globalFileTreeCache
     IN /\ globalFileTreeCache' = cache1
        /\ lastTreeUpdate' = IF clears THEN clearFileTreeCache.updated ELSE lastTreeUpdate
        /\ lastReturn' = [op |-> mutOp, ok |-> mutPc = "applied", cacheNull |-> cache1 = Null]
        /\ known' = IF mutPc = "applied" THEN boardVersion ELSE known
  /\ mutPc' = "idle"
  /\ UNCHANGED <<now, boardVersion, treePathsFile, mutOp, listPc, listOp, listSnap, lastListing>>
  /\ UNCHANGED notCache

\* lsTyped, listTreeStats or refreshFileTreeCache is called.
\*   lsTyped answers from a valid cache, and populates it otherwise; found
\*   says whether getEntriesFromCache has entries for the path, and with none
\*   lsTyped goes on to parse a fs tree output of its own;
\*   listTreeStats answers from tree-paths.json when the file is younger than
\*   30 s, and runs fs tree otherwise;
\*   refreshFileTreeCache drops the cache and populates it.
listingCall(op, found) ==
  /\ listPc = "idle"
  /\ listOp' = op
  /\ IF op = "lsTyped"
     THEN IF isCacheValid /\ found
          THEN /\ lastListing' = [source |-> "cache", version |-> globalFileTreeCache,
                                  known |-> known, failed |-> FALSE]
               /\ UNCHANGED <<listPc, globalFileTreeCache, lastTreeUpdate>>
          ELSE IF isCacheValid
          THEN /\ listPc' = "direct"
               /\ UNCHANGED <<lastListing, globalFileTreeCache, lastTreeUpdate>>
          ELSE /\ listPc' = "populating"
               /\ UNCHANGED <<lastListing, globalFileTreeCache, lastTreeUpdate>>
     ELSE IF op = "refreshFileTreeCache"
     THEN /\ globalFileTreeCache' = Null
          /\ lastTreeUpdate' = 0
          /\ listPc' = "populating"
          /\ UNCHANGED lastListing
     ELSE IF connect = "auto"
     THEN UNCHANGED <<listPc, lastListing, globalFileTreeCache, lastTreeUpdate>>
     ELSE IF treePathsFile.exists /\ now - treePathsFile.mtime < TreePathsMaxAge
     THEN /\ lastListing' = [source |-> "file", version |-> treePathsFile.version,
                             known |-> known, failed |-> FALSE]
          /\ UNCHANGED <<listPc, globalFileTreeCache, lastTreeUpdate>>
     ELSE /\ listPc' = "live"
          /\ UNCHANGED <<lastListing, globalFileTreeCache, lastTreeUpdate>>
  /\ UNCHANGED <<now, boardVersion, treePathsFile, mutPc, mutOp, listSnap, known, lastReturn>>
  /\ UNCHANGED notCache

\* The fs tree subprocess of the listing prints the board's tree, or fails
\* and the listing throws.
treeTool(ok) ==
  /\ listPc \in {"populating", "live", "direct"}
  /\ IF ok
     THEN /\ listSnap' = boardVersion
          /\ listPc' = IF listPc = "populating" THEN "fetched"
                       ELSE IF listPc = "live" THEN "parsed" ELSE "directParsed"
     ELSE /\ listPc' = "idle"
          /\ UNCHANGED listSnap
  /\ UNCHANGED <<now, boardVersion, globalFileTreeCache, lastTreeUpdate, treePathsFile,
                 mutPc, mutOp, listOp, known, lastReturn, lastListing>>
  /\ UNCHANGED notCache

\* populateFileTreeCache after its await: the parsed lines are written to
\* tree-paths.json and installed as the cache; lsTyped then answers from it
\* when it has entries for the path.
populateFileTreeCache(found) ==
  /\ listPc = "fetched"
  /\ treePathsFile' = [exists |-> TRUE, version |-> listSnap, mtime |-> now]
  /\ globalFileTreeCache' = listSnap
  /\ lastTreeUpdate' = now
  /\ lastListing' = IF listOp = "lsTyped" /\ found
                    THEN [source |-> "cache", version |-> listSnap, known |-> known,
                          failed |-> FALSE]
                    ELSE lastListing
  /\ listPc' = IF listOp = "lsTyped" /\ ~found THEN "direct" ELSE "idle"
  /\ UNCHANGED <<now, boardVersion, mutPc, mutOp, listOp, listSnap, known, lastReturn>>
  /\ UNCHANGED notCache

\* listTreeStats after its await: it returns what it parsed from the live output.
listTreeStatsLive ==
  /\ listPc = "parsed"
  /\ lastListing' = [source |-> "live", version |-> listSnap, known |-> known,
                     failed |-> FALSE]
  /\ listPc' = "idle"
  /\ UNCHANGED <<now, boardVersion, globalFileTreeCache, lastTreeUpdate, treePathsFile,
                 mutPc, mutOp, listOp, listSnap, known, lastReturn>>
  /\ UNCHANGED notCache

\* lsTyped after the fs tree of its own: parseTreeForPath gives the entries
\* of the path, and with none lsTyped tries fs ls.
lsTypedDirect(found) ==
  /\ listPc = "directParsed"
  /\ IF found
     THEN /\ lastListing' = [source |-> "direct", version |-> listSnap, known |-> known,
                             failed |-> FALSE]
          /\ listPc' = "idle"
     ELSE /\ listPc' = "fallback"
          /\ UNCHANGED lastListing
  /\ UNCHANGED <<now, boardVersion, globalFileTreeCache, lastTreeUpdate, treePathsFile,
                 mutPc, mutOp, listOp, listSnap, known, lastReturn>>
  /\ UNCHANGED notCache

\* The fs ls subprocess of the fallback: lsTyped returns what it parses from
\* the output; an error is caught and logged and lsTyped returns result, the
\* empty list of the tree parsing.
lsTypedFallback(ok) ==
  /\ listPc = "fallback"
  /\ lastListing' = IF ok
                    THEN [source |-> "ls", version |-> boardVersion, known |-> known,
                          failed |-> FALSE]
                    ELSE [source |-> "empty", version |-> Null, known |-> known,
                          failed |-> TRUE]
  /\ listPc' = "idle"
  /\ UNCHANGED <<now, boardVersion, globalFileTreeCache, lastTreeUpdate, treePathsFile,
                 mutPc, mutOp, listOp, listSnap, known, lastReturn>>
  /\ UNCHANGED notCache

(***************************************************************************)
(* Paths.  A path is the sequence of its parts, each "/" one part and each *)
(* name between two "/" one part: "/lib/a.py" is <<"/","lib","/","a.py">>, *)
(* "lib/a.py" is <<"lib","/","a.py">> and "" is <<>>.                      *)
(***************************************************************************)
startsWith(s, pre) ==
  IF Len(pre) > Len(s) THEN FALSE ELSE SubSeq(s, 1, Len(pre)) = pre

\* s.replace(/\/$/, "")
stripTrailingSlash(s) ==
  IF s # <<>> /\ s[Len(s)] = "/" THEN SubSeq(s, 1, Len(s) - 1) ELSE s

\* s.replace(/^\//, "")
stripLeadingSlash(s) ==
  IF s # <<>> /\ s[1] = "/" THEN Tail(s) ELSE s

\* s.replace(/\/+/g, "/")
RECURSIVE collapseSlashes(_)
collapseSlashes(s) ==
  IF Len(s) < 2 THEN s
  ELSE IF s[1] = "/" /\ s[2] = "/" THEN collapseSlashes(Tail(s))
  ELSE <<s[1]>> \o collapseSlashes(Tail(s))

\* parts.join("/")
RECURSIVE join(_)
join(parts) ==
  IF parts = <<>> THEN <<>>
  ELSE IF Len(parts) = 1 THEN parts
  ELSE <<parts[1], "/">> \o join(Tail(parts))

relFromDevice(devicePath, root) ==
  LET normRoot == IF root = <<"/">> THEN <<"/">> ELSE stripTrailingSlash(root)
  IN IF normRoot = <<"/">> THEN stripLeadingSlash(devicePath)
     ELSE IF startsWith(devicePath, normRoot \o <<"/">>)
     THEN SubSeq(devicePath, Len(normRoot) + 2, Len(devicePath))
     ELSE IF devicePath = normRoot THEN <<>>
     ELSE stripLeadingSlash(devicePath)

toDevicePath(localRel, root) ==
  LET normalizedLocalPath == stripTrailingSlash(collapseSlashes(localRel))
      normalizedRootPath  == stripTrailingSlash(collapseSlashes(root))
  IN IF normalizedRootPath = <<>> THEN <<"/">> \o normalizedLocalPath
     ELSE IF normalizedLocalPath = <<>> THEN normalizedRootPath
     ELSE normalizedRootPath \o <<"/">> \o normalizedLocalPath

\* toLocalRelative reduced to its last line.
stripLeadingSlashOnly(devicePath, root) == stripLeadingSlash(devicePath)

\* toLocalRelative of boardOperations.ts and of mpremoteCommands.ts
toLocalRelative(devicePath, root) ==
  LET normRoot == IF root = <<"/">> THEN <<"/">> ELSE stripTrailingSlash(root)
  IN IF normRoot = <<"/">> THEN stripLeadingSlash(devicePath)
     ELSE IF startsWith(devicePath, normRoot \o <<"/">>)
     THEN SubSeq(devicePath, Len(normRoot) + 2, Len(devicePath))
     ELSE IF devicePath = normRoot THEN <<>>
     ELSE stripLeadingSlash(devicePath)

\* toDevicePath of mpremoteCommands.ts
commandsToDevicePath(localRel, root) ==
  LET normRoot == IF root = <<"/">> THEN <<"/">> ELSE stripTrailingSlash(root)
  IN IF normRoot = <<"/">> THEN <<"/">> \o localRel
     ELSE normRoot \o <<"/">> \o localRel

\* The relative paths that are mapped: up to two names, and the empty path.
MapNames == {"x", "y.py", "app", "lib"}

MapRelPaths ==
  {<<>>} \cup { <<n>> : n \in MapNames } \cup { <<m, "/", n>> : m, n \in MapNames }

\* A relative path is mapped to the board and back, and to the board again.
mapPaths(fn) ==
  /\ mapPc = "idle"
  /\ mapPc' = "mapped"
  /\ mapFn' = fn
  /\ LET device == IF fn = "BoardOperations" THEN toDevicePath(mapRel, rootPath)
                   ELSE commandsToDevicePath(mapRel, rootPath)
         back == toLocalRelative(device, rootPath)
     IN /\ mapDevice' = device
        /\ mapRelBack' = back
        /\ mapDeviceBack' = IF fn = "BoardOperations" THEN toDevicePath(back, rootPath)
                            ELSE commandsToDevicePath(back, rootPath)
  /\ UNCHANGED mapRel
  /\ UNCHANGED <<tripVars, deleteVars, copyVars, parseVars, statsVars, treeVars>>
  /\ UNCHANGED diffVars
  /\ UNCHANGED notFs

(***************************************************************************)
(* The inputs of checkDiffs.                                               *)
(***************************************************************************)
Sizes == 0..MaxSize

Roots == { <<"/">>, <<"/", "app">>, <<"/", "app", "/">> }

\* The relative paths a manifest can hold.
RelPaths == { <<"a.py">>, <<"lib", "/", "a.py">>, <<"app", "/", "a.py">> }

\* The device paths a board file can have.
BoardPaths ==
  { <<"/", "a.py">>, <<"/", "tree.py">>, <<"/", "app", "/", "a.py">>,
    <<"/", "lib", "/", "a.py">>, <<"/", "app", "/", "lib", "/", "a.py">> }

\* The names of the board's entries, in the order fs tree prints them.
NameOrder == <<"a.py", "app", "lib", "tree.py">>

\* What "mpremote fs tree -s" prints for a board: a line is its
\* indentation (one unit per level), its name and, for a file, its size.
RECURSIVE fsTree(_, _, _, _)
fsTree(b, dir, indent, k) ==
  IF k > Len(NameOrder) THEN <<>>
  ELSE LET p == dir \o <<"/", NameOrder[k]>>
           rest == fsTree(b, dir, indent, k + 1)
       IN IF p \in BoardPaths /\ b[p] # Null
          THEN <<[indent |-> indent, name |-> NameOrder[k], size |-> b[p]]>> \o rest
          ELSE IF \E q \in BoardPaths : b[q] # Null /\ startsWith(q, p \o <<"/">>)
          THEN <<[indent |-> indent, name |-> NameOrder[k], size |-> Null]>>
                 \o fsTree(b, p, indent \o <<"|   ">>, 1) \o rest
          ELSE rest

stdout(b) ==
  <<[indent |-> <<>>, name |-> "tree :/", size |-> Null],
    [indent |-> <<>>, name |-> ":/", size |-> Null]>> \o fsTree(b, <<>>, <<>>, 1)

\* line.includes('tree')
includesTree(line) == line.name \in {"tree :/", "tree.py", "trees"}

(***************************************************************************)
(* getBoardFilesAndSizes: the files, in the order of their lines, and the  *)
(* directories of the tree output.  The rootPath argument is not used.     *)
(***************************************************************************)
RECURSIVE levelOf(_)
levelOf(indent) ==
  IF indent = <<>> THEN 0
  ELSE IF Head(indent) \in {"|   ", "    "} THEN 1 + levelOf(Tail(indent))
  ELSE 0

RECURSIVE parseLines(_, _, _)
parseLines(lines, pathStack, acc) ==
  IF lines = <<>> THEN acc
  ELSE LET line == Head(lines)
       IN IF includesTree(line) \/ line.name = ":/"
          THEN parseLines(Tail(lines), pathStack, acc)
          ELSE LET level == levelOf(line.indent)
                   stack == IF level < Len(pathStack)
                            THEN SubSeq(pathStack, 1, level) ELSE pathStack
                   joined == IF stack = <<>> THEN <<line.name>>
                             ELSE join(stack) \o <<"/", line.name>>
                   fullPath == IF joined[1] = "/" THEN joined ELSE <<"/">> \o joined
               IN IF line.size # Null
                  THEN parseLines(Tail(lines), stack,
                         [acc EXCEPT !.files = @ \o <<[path |-> fullPath, size |-> line.size]>>])
                  ELSE parseLines(Tail(lines), stack \o <<line.name>>,
                         [acc EXCEPT !.directories = @ \cup {fullPath}])

getBoardFilesAndSizes(b) ==
  parseLines(stdout(b), <<>>, [files |-> <<>>, directories |-> {}])

(***************************************************************************)
(* checkDiffs.                                                             *)
(***************************************************************************)
\* Object.keys(localManifest.files)
localFiles == { r \in RelPaths : workspace[r] # Null }

\* localFileSizes after Promise.all(statPromises)
localFileSizes(r) == IF r \in unreadable THEN -1 ELSE workspace[r]

\* localFileSizes.get(localRel) || -1
localSize(r) == IF localFileSizes(r) = 0 THEN -1 ELSE localFileSizes(r)

\* the board files the ignore matcher lets through, in the order of their lines
filteredBoardFiles(boardFiles, root) ==
  SelectSeq(boardFiles, LAMBDA f : relFromDevice(f.path, root) \notin ignored)

\* boardFileByRelPath: a later file with the same relative path replaces an earlier one
boardFileByRelPath(filtered, root) ==
  LET rels == { relFromDevice(filtered[i].path, root) : i \in DOMAIN filtered }
      at(r) == { i \in DOMAIN filtered : relFromDevice(filtered[i].path, root) = r }
  IN [r \in rels |-> filtered[CHOOSE i \in at(r) : \A j \in at(r) : j <= i]]

diffSet(byRel) ==
  { byRel[r].path :
      r \in { x \in localFiles \cap DOMAIN byRel : localSize(x) # byRel[x].size } }

localOnlySet(byRel, root) ==
  { toDevicePath(r, root) : r \in localFiles \ DOMAIN byRel }

\* The second loop without its test against the manifest.
boardOnlySetUntested(byRel) == { byRel[r].path : r \in DOMAIN byRel }

boardOnlySet(byRel) ==
  { byRel[r].path : r \in DOMAIN byRel \ localFiles }

\* One run of checkDiffs.  It throws before it stores anything when no port
\* is selected or when the fs tree subprocess fails.
checkDiffs(ok) ==
  /\ diffRuns < MaxDiffRuns
  /\ IF connect = "auto" \/ ~ok
     THEN UNCHANGED <<diffRuns, diffs, localOnly, boardOnly, prevDiffs>>
     ELSE LET boardData == getBoardFilesAndSizes(board)
              byRel == boardFileByRelPath(filteredBoardFiles(boardData.files, rootPath),
                                          rootPath)
          IN /\ diffs' = diffSet(byRel)
             /\ localOnly' = localOnlySet(byRel, rootPath)
             /\ boardOnly' = boardOnlySet(byRel)
             /\ prevDiffs' = <<diffs, localOnly, boardOnly>>
             /\ diffRuns' = diffRuns + 1
  /\ UNCHANGED <<rootPath, workspace, unreadable, ignored, board>>
  /\ UNCHANGED notDiff

(***************************************************************************)
(* The baseline upload: syncBaseline.  The command of extension.ts and the *)
(* method of BoardOperations run the same steps.                           *)
(*   basePc: "idle"     not started                                        *)
(*           "mkdir"    in the directory creation loop                     *)
(*           "verify"   in the verification loop                           *)
(*           "retry"    in the loop that creates the missing directories   *)
(*           "reverify" in the loop that verifies them again               *)
(*           "validate" in the loop that builds validFiles                 *)
(*           "copy"     in the copy loop, before the second fs.access      *)
(*           "cp"       in the copy loop, awaiting cpToDevice              *)
(*           "completed" the completion message has been shown             *)
(*           "thrown"   the body threw: "Upload failed" has been shown     *)
(***************************************************************************)
maxAttempts == 3

\* The order of the keys of the manifest.
ManifestOrder == << <<"a.py">>, <<"app", "/", "a.py">>, <<"lib", "/", "a.py">> >>

\* path.posix.join(rootPath, relativePath)
posixJoin(root, rel) == collapseSlashes(root \o <<"/">> \o rel)

\* path.posix.dirname(p)
dirname(p) ==
  LET q == stripTrailingSlash(p)
  IN IF Len(q) < 2 THEN (IF q = <<"/">> \/ p = <<"/">> THEN <<"/">> ELSE <<".">>)
     ELSE IF Len(q) = 2 THEN <<"/">>
     ELSE SubSeq(q, 1, Len(q) - 2)

\* a.split('/').filter(p => p).length
depth(p) == Cardinality({ i \in DOMAIN p : p[i] # "/" })

\* fs.access(localPath) succeeds
accessible(r) == r \in RelPaths /\ workspace[r] # Null /\ r \notin localGone

\* The while loop leaving after its first pass: the directory of the file only.
parentsOfDirect(currentDir, root) ==
  IF currentDir = root \/ currentDir = <<"/">> THEN <<>>
  ELSE <<currentDir>>

\* The directories the while loop adds for one file, deepest first.
RECURSIVE parentsOf(_, _)
parentsOf(currentDir, root) ==
  IF currentDir = root \/ currentDir = <<"/">> THEN <<>>
  ELSE <<currentDir>> \o parentsOf(dirname(currentDir), root)

RECURSIVE addAll(_, _)
addAll(seq, more) ==
  IF more = <<>> THEN seq
  ELSE IF \E i \in DOMAIN seq : seq[i] = Head(more) THEN addAll(seq, Tail(more))
  ELSE addAll(seq \o <<Head(more)>>, Tail(more))

\* allDirectories, in insertion order
RECURSIVE allDirectories(_, _)
allDirectories(fs, root) ==
  IF fs = <<>> THEN <<>>
  ELSE LET deviceDir == dirname(posixJoin(root, fs[Len(fs)]))
           before == allDirectories(SubSeq(fs, 1, Len(fs) - 1), root)
       IN IF deviceDir # <<".">> /\ deviceDir # root
          THEN addAll(before, parentsOf(deviceDir, root))
          ELSE before

\* Array.from(allDirectories).sort(by depth): the sort is stable
RECURSIVE sortByDepth(_, _)
sortByDepth(dirs, d) ==
  IF \A i \in DOMAIN dirs : depth(dirs[i]) < d THEN <<>>
  ELSE SelectSeq(dirs, LAMBDA x : depth(x) = d) \o sortByDepth(dirs, d + 1)

manifestFiles == SelectSeq(ManifestOrder, LAMBDA r : workspace[r] # Null)

\* A file of the manifest is deleted from the local folder while a transfer runs.
localDelete(r) ==
  /\ basePc \notin {"idle", "completed", "thrown"} \/ loopPc = "running"
  /\ workspace[r] # Null
  /\ r \notin localGone
  /\ localGone' = localGone \cup {r}
  /\ UNCHANGED <<boardDirs, baseVars, loopVars>>
  /\ UNCHANGED notTransfer

\* decorations.clear() after the loop of a transfer that did not throw: the
\* three marker sets are emptied; nothing else outside the transfer changes.
decorationsClear(afterLoop) ==
  /\ diffs' = IF afterLoop THEN {} ELSE diffs
  /\ localOnly' = IF afterLoop THEN {} ELSE localOnly
  /\ boardOnly' = IF afterLoop THEN {} ELSE boardOnly
  /\ UNCHANGED <<rootPath, workspace, unreadable, ignored, board, diffRuns, prevDiffs>>
  /\ UNCHANGED <<gateVars, runVars, cacheVars, fsVars>>

\* The command starts: the manifest is built, the directory plan is made.
syncBaseline ==
  /\ basePc = "idle"
  /\ loopPc = "idle"
  /\ files' = manifestFiles
  /\ sortedDirectories' = sortByDepth(allDirectories(manifestFiles, rootPath), 1)
  /\ basePc' = IF manifestFiles = <<>> THEN "completed"
               ELSE IF sortedDirectories' = <<>> THEN "validate"
               ELSE "mkdir"
  /\ UNCHANGED <<dirIdx, attempts, failedDirectories, verificationFailures, stillMissing,
                 validFiles, missingFiles, fileIdx, uploaded, failed, copyLog>>
  /\ UNCHANGED <<localGone, boardDirs, loopVars>>
  /\ decorationsClear(basePc' = "completed")

\* The directory plan by itself, for any manifest: allDirectories is
\* collected from the keys of the manifest and sorted by depth.
planDirectories ==
  /\ basePc = "idle"
  /\ files # <<>>
  /\ sortedDirectories' = sortByDepth(allDirectories(files, rootPath), 1)
  /\ basePc' = "planned"
  /\ UNCHANGED <<files, dirIdx, attempts, failedDirectories, verificationFailures,
                 stillMissing, validFiles, missingFiles, fileIdx, uploaded, failed,
                 copyLog>>
  /\ UNCHANGED <<localGone, boardDirs, loopVars>>
  /\ UNCHANGED notTransfer

\* One pass of the while loop of the creation loop: await mp.mkdir(deviceDir).
baselineMkdir(toolOk) ==
  /\ basePc = "mkdir"
  /\ LET deviceDir == sortedDirectories[dirIdx]
         created == toolOk /\ connect # "auto"
         givenUp == ~created /\ attempts + 1 >= maxAttempts
         last == dirIdx = Len(sortedDirectories)
     IN /\ boardDirs' = IF created THEN boardDirs \cup {deviceDir} ELSE boardDirs
        /\ failedDirectories' = IF givenUp THEN Append(failedDirectories, deviceDir)
                                ELSE failedDirectories
        /\ IF created \/ givenUp
           THEN /\ attempts' = 0
                /\ dirIdx' = IF last THEN 1 ELSE dirIdx + 1
                /\ basePc' = IF last THEN "verify" ELSE "mkdir"
           ELSE /\ attempts' = attempts + 1
                /\ UNCHANGED <<dirIdx, basePc>>
  /\ UNCHANGED <<files, sortedDirectories, verificationFailures, stillMissing,
                 validFiles, missingFiles, fileIdx, uploaded, failed, copyLog>>
  /\ UNCHANGED <<localGone, loopVars>>
  /\ UNCHANGED notTransfer

\* mp.fileExists(p): true only when the stat subprocess succeeds
fileExists(p, toolOk) == toolOk /\ p \in boardDirs

\* One pass of the verification loop.  fileExists throws when no port is
\* selected, and the loop takes that as a missing directory too.
baselineVerify(toolOk) ==
  /\ basePc = "verify"
  /\ LET deviceDir == sortedDirectories[dirIdx]
         exists == connect # "auto" /\ fileExists(deviceDir, toolOk)
         failures == IF exists THEN verificationFailures
                     ELSE Append(verificationFailures, deviceDir)
         last == dirIdx = Len(sortedDirectories)
     IN /\ verificationFailures' = failures
        /\ dirIdx' = IF last THEN 1 ELSE dirIdx + 1
        /\ basePc' = IF ~last THEN "verify"
                     ELSE IF failures = <<>> THEN "validate" ELSE "retry"
  /\ UNCHANGED <<files, sortedDirectories, attempts, failedDirectories, stillMissing,
                 validFiles, missingFiles, fileIdx, uploaded, failed, copyLog>>
  /\ UNCHANGED <<localGone, boardDirs, loopVars>>
  /\ UNCHANGED notTransfer

\* One pass of the loop that creates the missing directories once more.
baselineRetryMkdir(toolOk) ==
  /\ basePc = "retry"
  /\ LET missingDir == verificationFailures[dirIdx]
         last == dirIdx = Len(verificationFailures)
     IN /\ boardDirs' = IF toolOk /\ connect # "auto" THEN boardDirs \cup {missingDir}
                        ELSE boardDirs
        /\ dirIdx' = IF last THEN 1 ELSE dirIdx + 1
        /\ basePc' = IF last THEN "reverify" ELSE "retry"
  /\ UNCHANGED <<files, sortedDirectories, attempts, failedDirectories,
                 verificationFailures, stillMissing,
                 validFiles, missingFiles, fileIdx, uploaded, failed, copyLog>>
  /\ UNCHANGED <<localGone, loopVars>>
  /\ UNCHANGED notTransfer

\* One pass of the second verification loop; after the last one the body
\* throws if a directory is still missing.
baselineReverify(toolOk) ==
  /\ basePc = "reverify"
  /\ LET missingDir == verificationFailures[dirIdx]
         exists == connect # "auto" /\ fileExists(missingDir, toolOk)
         missing == IF exists THEN stillMissing ELSE Append(stillMissing, missingDir)
         last == dirIdx = Len(verificationFailures)
     IN /\ stillMissing' = missing
        /\ dirIdx' = IF last THEN 1 ELSE dirIdx + 1
        /\ basePc' = IF ~last THEN "reverify"
                     ELSE IF missing # <<>> THEN "thrown" ELSE "validate"
  /\ UNCHANGED <<files, sortedDirectories, attempts, failedDirectories,
                 verificationFailures,
                 validFiles, missingFiles, fileIdx, uploaded, failed, copyLog>>
  /\ UNCHANGED <<localGone, boardDirs, loopVars>>
  /\ UNCHANGED notTransfer

\* One pass of the loop that sorts the manifest files into validFiles and
\* missingFiles.
baselineValidate ==
  /\ basePc = "validate"
  /\ LET relativePath == files[fileIdx]
         valid == IF accessible(relativePath) THEN Append(validFiles, relativePath)
                  ELSE validFiles
         last == fileIdx = Len(files)
     IN /\ validFiles' = valid
        /\ missingFiles' = IF accessible(relativePath) THEN missingFiles
                           ELSE Append(missingFiles, relativePath)
        /\ fileIdx' = IF last THEN 1 ELSE fileIdx + 1
        /\ basePc' = IF ~last THEN "validate"
                     ELSE IF valid = <<>> THEN "completed" ELSE "copy"
  /\ UNCHANGED <<files, sortedDirectories, dirIdx, attempts, failedDirectories,
                 verificationFailures, stillMissing, uploaded, failed, copyLog>>
  /\ UNCHANGED <<localGone, boardDirs, loopVars>>
  /\ decorationsClear(basePc' = "completed")

\* The second fs.access with a file that is gone left out of the counts.
baselineDoubleCheckUncounted ==
  /\ basePc = "copy"
  /\ LET last == fileIdx = Len(validFiles)
     IN IF accessible(validFiles[fileIdx])
        THEN /\ basePc' = "cp"
             /\ UNCHANGED fileIdx
        ELSE /\ fileIdx' = IF last THEN 1 ELSE fileIdx + 1
             /\ basePc' = IF last THEN "completed" ELSE "copy"
  /\ UNCHANGED <<files, sortedDirectories, dirIdx, attempts, failedDirectories,
                 verificationFailures, stillMissing, validFiles, missingFiles,
                 uploaded, failed, copyLog>>
  /\ UNCHANGED <<localGone, boardDirs, loopVars>>
  /\ UNCHANGED notTransfer

\* The copy loop, first half: the second fs.access of the file.  A file that
\* is gone counts as failed and the loop continues with the next one.
baselineDoubleCheck ==
  /\ basePc = "copy"
  /\ LET last == fileIdx = Len(validFiles)
     IN IF accessible(validFiles[fileIdx])
        THEN /\ basePc' = "cp"
             /\ UNCHANGED <<failed, fileIdx>>
        ELSE /\ failed' = failed + 1
             /\ fileIdx' = IF last THEN 1 ELSE fileIdx + 1
             /\ basePc' = IF last THEN "completed" ELSE "copy"
  /\ UNCHANGED <<files, sortedDirectories, dirIdx, attempts, failedDirectories,
                 verificationFailures, stillMissing, validFiles, missingFiles,
                 uploaded, copyLog>>
  /\ UNCHANGED <<localGone, boardDirs, loopVars>>
  /\ decorationsClear(basePc' = "completed")

\* How an awaited cpToDevice can end: its subprocess succeeds, fails, or is
\* killed by cancelAll while it runs (mpyWorkbench.cancelAllTasks).
CopyOutcomes == {"ok", "error", "killed"}

\* The copy without the try/catch around it: the first error ends the loop.
baselineCopyUncaught(out) ==
  /\ basePc = "cp"
  /\ IF out = "killed" THEN connect # "auto" ELSE TRUE
  /\ LET relativePath == validFiles[fileIdx]
         ok == out = "ok" /\ connect # "auto"
         last == fileIdx = Len(validFiles)
     IN /\ copyLog' = Append(copyLog, [file |-> relativePath, ok |-> ok,
                                       cancelled |-> out = "killed"])
        /\ uploaded' = IF ok THEN uploaded + 1 ELSE uploaded
        /\ failed' = IF ok THEN failed ELSE failed + 1
        /\ fileIdx' = IF last \/ ~ok THEN 1 ELSE fileIdx + 1
        /\ basePc' = IF ~ok THEN "thrown" ELSE IF last THEN "completed" ELSE "copy"
  /\ UNCHANGED <<files, sortedDirectories, dirIdx, attempts, failedDirectories,
                 verificationFailures, stillMissing, validFiles, missingFiles>>
  /\ UNCHANGED <<localGone, boardDirs, loopVars>>
  /\ UNCHANGED notTransfer

\* The copy loop, second half: await mp.cpToDevice(localPath, devicePath)
\* inside try/catch.  After the last file the manifest is saved and the
\* completion message is shown.  With no port selected cpToDevice throws
\* before it launches a subprocess, so there is none to kill.
baselineCopy(out) ==
  /\ basePc = "cp"
  /\ IF out = "killed" THEN connect # "auto" ELSE TRUE
  /\ LET relativePath == validFiles[fileIdx]
         ok == out = "ok" /\ connect # "auto"
         last == fileIdx = Len(validFiles)
     IN /\ copyLog' = Append(copyLog, [file |-> relativePath, ok |-> ok,
                                       cancelled |-> out = "killed"])
        /\ uploaded' = IF ok THEN uploaded + 1 ELSE uploaded
        /\ failed' = IF ok THEN failed ELSE failed + 1
        /\ fileIdx' = IF last THEN 1 ELSE fileIdx + 1
        /\ basePc' = IF last THEN "completed" ELSE "copy"
  /\ UNCHANGED <<files, sortedDirectories, dirIdx, attempts, failedDirectories,
                 verificationFailures, stillMissing, validFiles, missingFiles>>
  /\ UNCHANGED <<localGone, boardDirs, loopVars>>
  /\ decorationsClear(basePc' = "completed")

\* What syncBaseline shows when it ends: showInformationMessage with a fixed
\* text after the copy loop, showErrorMessage from the catch.  uploaded and
\* failed go to console.log only, so the message carries no counts.
NoCounts == <<>>

baselineMessage ==
  IF basePc = "completed"
  THEN [kind |-> "information",
        text |-> "Board: Sync all files (Local -> Board) completed",
        counts |-> NoCounts]
  ELSE IF basePc = "thrown"
  THEN [kind |-> "error", text |-> "Upload failed", counts |-> NoCounts]
  ELSE [kind |-> "none", text |-> "", counts |-> NoCounts]

(***************************************************************************)
(* The other transfer loops: the baseline download and the diff transfers. *)
(***************************************************************************)
\* The loops, by the function that holds them.
Downloads ==
  {"BoardOperations.syncBaselineFromBoard", "mpyWorkbench.syncBaselineFromBoard",
   "BoardOperations.syncDiffsBoardToLocal", "mpyWorkbench.syncDiffsBoardToLocal"}

Uploads == {"BoardOperations.syncDiffsLocalToBoard", "mpyWorkbench.syncDiffsLocalToBoard"}

\* The loops whose copy call stands inside a try/catch.
CatchesCopyError == {"BoardOperations.syncDiffsLocalToBoard"}

\* The order in which a transfer list holds the device paths.
BatchOrder ==
  << <<"/", "a.py">>, <<"/", "lib", "/", "a.py">>, <<"/", "app", "/", "a.py">>,
     <<"/", "app", "/", "lib", "/", "a.py">>, <<"/", "tree.py">> >>

\* The loop of a download or of a diff transfer is entered with its list.
transferLoop(kind, n) ==
  /\ loopPc = "idle"
  /\ basePc = "idle"
  /\ n <= Len(BatchOrder)
  /\ loopKind' = kind
  /\ toTransfer' = SubSeq(BatchOrder, 1, n)
  /\ loopPc' = "running"
  /\ loopTransferred' = {}
  /\ UNCHANGED <<loopIdx, loopAttempted>>
  /\ UNCHANGED <<localGone, boardDirs, baseVars>>
  /\ UNCHANGED notTransfer

\* One pass of the loop.  An upload skips a file it cannot access; the copy
\* is cpFromDevice for a download and uploadReplacing for an upload.  An
\* error of the copy leaves the loop unless the loop catches it.
transferNext(toolOk) ==
  /\ loopPc = "running"
  /\ LET devicePath == toTransfer[loopIdx]
         rel == toLocalRelative(devicePath, rootPath)
         skipped == loopKind \in Uploads /\ ~accessible(rel)
         ok == toolOk /\ connect # "auto"
         last == loopIdx = Len(toTransfer)
     IN /\ loopAttempted' = IF skipped THEN loopAttempted
                            ELSE loopAttempted \cup {devicePath}
        /\ loopTransferred' = IF ~skipped /\ ok THEN loopTransferred \cup {devicePath}
                              ELSE loopTransferred
        /\ IF skipped \/ ok \/ loopKind \in CatchesCopyError
           THEN /\ loopIdx' = IF last THEN 1 ELSE loopIdx + 1
                /\ loopPc' = IF last THEN "completed" ELSE "running"
           ELSE /\ loopPc' = "thrown"
                /\ UNCHANGED loopIdx
  /\ UNCHANGED <<loopKind, toTransfer>>
  /\ UNCHANGED <<localGone, boardDirs, baseVars>>
  /\ decorationsClear(loopPc' = "completed")

(***************************************************************************)
(* The round trip: a baseline upload in which every tool call succeeds,    *)
(* then a baseline download into an empty folder.                          *)
(***************************************************************************)
\* The folder the upload started from, as the download should recreate it.
originalFolder == { [rel |-> r, size |-> workspace[r]] : r \in { q \in RelPaths : workspace[q] # Null } }

\* The baseline upload with every mkdir and every cpToDevice succeeding:
\* each manifest file is on the board at path.posix.join(rootPath, rel).
uploadedBoard(b, root) ==
  [p \in BoardPaths |->
     IF \E r \in RelPaths : workspace[r] # Null /\ posixJoin(root, r) = p
     THEN workspace[CHOOSE r \in RelPaths : workspace[r] # Null /\ posixJoin(root, r) = p]
     ELSE b[p]]

syncBaselineCompletes ==
  /\ tripPc = "idle"
  /\ connect # "auto"
  /\ board' = uploadedBoard(board, rootPath)
  /\ tripPc' = "uploaded"
  /\ UNCHANGED <<statsSource, folder>>
  /\ UNCHANGED <<rootPath, workspace, unreadable, ignored, diffRuns, diffs, localOnly,
                 boardOnly, prevDiffs>>
  /\ UNCHANGED <<deleteVars, copyVars, restVars>>
  /\ UNCHANGED notFs

\* determineIsDirectory: a name with a known file extension is a file, so
\* is one of the special names, and any other name without a dot is taken
\* for a directory, with or without the look-ahead.
specialFiles == {"main", "boot", "README", "LICENSE", "Makefile"}

determineIsDirectory(name) ==
  name \notin {"a.py", "tree.py", "z.py"} /\ name \notin specialFiles

\* parseTreeLines, whose result populateFileTreeCache saves as tree-paths.json
RECURSIVE parseTreeLines(_, _, _)
parseTreeLines(lines, dirStack, acc) ==
  IF lines = <<>> THEN acc
  ELSE LET line == Head(lines)
       IN IF includesTree(line) \/ line.name = ":/"
          THEN parseTreeLines(Tail(lines), dirStack, acc)
          ELSE LET level == levelOf(line.indent)
                   stack == IF level < Len(dirStack)
                            THEN SubSeq(dirStack, 1, level) ELSE dirStack
                   fullPath == IF stack = <<>> THEN <<"/", line.name>>
                               ELSE stack[Len(stack)] \o <<"/", line.name>>
                   isDir == determineIsDirectory(line.name)
               IN parseTreeLines(Tail(lines),
                                 IF isDir THEN Append(stack, fullPath) ELSE stack,
                                 Append(acc, [path |-> fullPath, isDir |-> isDir]))

\* root && root !== "/" ? root : ""
rootArg(root) == IF root # <<>> /\ root # <<"/">> THEN root ELSE <<>>

\* The path listTreeStats takes from one line of "fs tree": the line is
\* trimmed and split at white space, the first part is read as the size and
\* the rest is the path.  A top-level line is "+-- name", so its path is the
\* bare name; a deeper line keeps its tree drawing.
lineWithoutFirstPart(line) ==
  IF line.indent = <<>> THEN <<line.name>> ELSE <<"+-- ", line.name>>

\* The loop of listTreeStats over the lines of "fs tree".  The tool prints
\* no trailing slash after a directory, so isDir is false on every line.
RECURSIVE statsOfLines(_)
statsOfLines(lines) ==
  IF lines = <<>> THEN <<>>
  ELSE IF includesTree(Head(lines)) THEN statsOfLines(Tail(lines))
  ELSE <<[path |-> lineWithoutFirstPart(Head(lines)), isDir |-> FALSE]>>
         \o statsOfLines(Tail(lines))

\* "fs tree <root>" fails when the root is not a directory of the board.
isBoardDir(b, dir) ==
  dir = <<>> \/ \E q \in BoardPaths : b[q] # Null /\ startsWith(q, dir \o <<"/">>)

\* listTreeStats(root): from tree-paths.json while it is fresh, else from "fs tree".
listTreeStats(b, root, source) ==
  IF source = "file" THEN parseTreeLines(stdout(b), <<>>, <<>>)
  ELSE statsOfLines(fsTree(b, stripTrailingSlash(rootArg(root)), <<>>, 1))

\* One call of listTreeStats(rootPath) on the board as it is: with a fresh
\* tree-paths.json that populateFileTreeCache wrote from this board, or with
\* none, so that "fs tree" runs.
listTreeStatsFrom(source) ==
  /\ connect # "auto"
  /\ source \notin statsDone
  /\ statsDone' = statsDone \cup {source}
  /\ IF source = "tree" /\ ~isBoardDir(board, stripTrailingSlash(rootArg(rootPath)))
     THEN /\ statsThrown' = TRUE
          /\ UNCHANGED statsOf
     ELSE /\ statsOf' = IF source = "file"
                        THEN [statsOf EXCEPT !.file = listTreeStats(board, rootPath, source)]
                        ELSE [statsOf EXCEPT !.tree = listTreeStats(board, rootPath, source)]
          /\ UNCHANGED statsThrown
  /\ UNCHANGED <<tripVars, deleteVars, copyVars, parseVars, mapVars, treeVars>>
  /\ UNCHANGED diffVars
  /\ UNCHANGED notFs

(***************************************************************************)
(* Esp32Tree (esp32Fs.ts): the node cache of the board's tree view.  The   *)
(* nodes of a directory are a set here: the code keeps them as a sorted    *)
(* list without two nodes of one name.                                     *)
(***************************************************************************)
\* The directories of the view, and a directory without an entry.
TreeDirs == { <<"/">>, <<"/", "lib">> }

NoEntry == [has |-> FALSE, nodes |-> {}]

\* The paths that commands pass to addNode and removeNode.
TreeNodes == { <<"/", "z.py">>, <<"/", "lib">>, <<"/", "lib", "/", "z.py">>,
               <<"/", "lib", "/", "a.py">> }

\* path.includes("/") ? path.replace(/\/[^\/]+$/, "") || "/" : "/"
nodeParent(p) == IF Len(p) > 2 THEN SubSeq(p, 1, Len(p) - 2) ELSE <<"/">>

\* path.split("/").pop()
nodeName(p) == p[Len(p)]

\* What lsTyped(dir) gives for the board: the names right under dir.
boardEntries(b, dir) ==
  LET pre == IF dir = <<"/">> THEN <<"/">> ELSE dir \o <<"/">>
  IN { [name |-> q[Len(pre) + 1], kind |-> IF Len(q) = Len(pre) + 1 THEN "file" ELSE "dir"] :
         q \in { r \in BoardPaths : b[r] # Null /\ startsWith(r, pre) } }

\* The entry of the parent after addNode: an empty list is made and stored
\* when there is none, and the node is pushed unless one has its name.
addToSiblings(entry, node) ==
  [has |-> TRUE,
   nodes |-> IF \E n \in entry.nodes : n.name = node.name THEN entry.nodes
             ELSE entry.nodes \cup {node}]

addNode(path, isDir) ==
  /\ LET parentPath == nodeParent(path)
         node == [name |-> nodeName(path), kind |-> IF isDir THEN "dir" ELSE "file"]
     IN nodeCache' = [nodeCache EXCEPT ![parentPath] = addToSiblings(@, node)]
  /\ UNCHANGED <<listedDirs, lastChildren>>
  /\ UNCHANGED <<tripVars, deleteVars, copyVars, parseVars, mapVars, statsVars>>
  /\ UNCHANGED diffVars
  /\ UNCHANGED notFs

\* removeNode: the node leaves its parent's entry, and the entry of the path
\* itself is deleted.
removeNode(path) ==
  /\ LET parentPath == nodeParent(path)
         without == [nodeCache EXCEPT ![parentPath] =
                       [has |-> @.has,
                        nodes |-> { n \in @.nodes : n.name # nodeName(path) }]]
     IN nodeCache' = IF path \in TreeDirs THEN [without EXCEPT ![path] = NoEntry]
                     ELSE without
  /\ listedDirs' = listedDirs \ {path}
  /\ UNCHANGED lastChildren
  /\ UNCHANGED <<tripVars, deleteVars, copyVars, parseVars, mapVars, statsVars>>
  /\ UNCHANGED diffVars
  /\ UNCHANGED notFs

clearCache ==
  /\ nodeCache' = [d \in TreeDirs |-> NoEntry]
  /\ listedDirs' = {}
  /\ UNCHANGED lastChildren
  /\ UNCHANGED <<tripVars, deleteVars, copyVars, parseVars, mapVars, statsVars>>
  /\ UNCHANGED diffVars
  /\ UNCHANGED notFs

\* getChildNodes(element) for the directory dir.  forceList is rawListOnlyOnce;
\* ok says whether the listing succeeds.  No ignore file and no local-only
\* marker is in play.
getChildNodes(dir, forceList, ok) ==
  /\ IF connect = "auto"
     THEN /\ lastChildren' = [dir |-> dir, from |-> "no-port", nodes |-> {}, listed |-> FALSE]
          /\ UNCHANGED <<nodeCache, listedDirs>>
     ELSE IF ~forceList /\ nodeCache[dir].has
     THEN /\ lastChildren' = [dir |-> dir, from |-> "cache", nodes |-> nodeCache[dir].nodes,
                              listed |-> dir \in listedDirs]
          /\ UNCHANGED <<nodeCache, listedDirs>>
     ELSE IF ok
     THEN /\ nodeCache' = [nodeCache EXCEPT ![dir] =
                             [has |-> TRUE, nodes |-> boardEntries(board, dir)]]
          /\ listedDirs' = listedDirs \cup {dir}
          /\ lastChildren' = [dir |-> dir, from |-> "listing",
                              nodes |-> boardEntries(board, dir), listed |-> TRUE]
     ELSE /\ lastChildren' = [dir |-> dir, from |-> "error", nodes |-> {}, listed |-> FALSE]
          /\ UNCHANGED <<nodeCache, listedDirs>>
  /\ UNCHANGED <<tripVars, deleteVars, copyVars, parseVars, mapVars, statsVars>>
  /\ UNCHANGED diffVars
  /\ UNCHANGED notFs

\* cpFromDevice(devicePath, abs): the leading slash is stripped and the tool
\* resolves the rest from the board's working directory /.
cpSource(devicePath) == <<"/">> \o stripLeadingSlash(devicePath)

\* The download loop: the first copy that fails ends it.
RECURSIVE downloadLoop(_, _, _, _)
downloadLoop(toDownload, b, root, acc) ==
  IF toDownload = <<>> THEN acc
  ELSE LET stat == Head(toDownload)
           rel == toLocalRelative(stat.path, root)
           src == cpSource(stat.path)
       IN IF src \in BoardPaths /\ b[src] # Null
          THEN downloadLoop(Tail(toDownload), b, root,
                 [acc EXCEPT !.folder = { e \in @ : e.rel # rel }
                                          \cup {[rel |-> rel, size |-> b[src]]}])
          ELSE [acc EXCEPT !.thrown = TRUE]

\* syncBaselineFromBoard into an empty folder, right after the upload.
syncBaselineFromBoard(source) ==
  /\ tripPc = "uploaded"
  /\ connect # "auto"
  /\ statsSource' = source
  /\ IF source = "tree" /\ ~isBoardDir(board, stripTrailingSlash(rootArg(rootPath)))
     THEN /\ tripPc' = "thrown"
          /\ UNCHANGED folder
     ELSE LET deviceStats == listTreeStats(board, rootPath, source)
              toDownload == SelectSeq(deviceStats,
                              LAMBDA stat : ~stat.isDir
                                 /\ toLocalRelative(stat.path, rootPath) \notin ignored)
              end == downloadLoop(toDownload, board, rootPath,
                                  [folder |-> folder, thrown |-> FALSE])
          IN /\ folder' = end.folder
             /\ tripPc' = IF end.thrown THEN "thrown" ELSE "downloaded"
  /\ UNCHANGED diffVars
  /\ UNCHANGED <<deleteVars, copyVars, restVars>>
  /\ UNCHANGED notFs

(***************************************************************************)
(* The two parsers of the tree output on boards with deeper nesting.       *)
(***************************************************************************)
\* The entries such a board can hold, and which of them are directories.
ParsePaths ==
  { <<"/", "lib">>, <<"/", "lib", "/", "a.py">>, <<"/", "lib", "/", "sub">>,
    <<"/", "lib", "/", "sub", "/", "a.py">>, <<"/", "main">>,
    <<"/", "main", "/", "a.py">>, <<"/", "trees">>, <<"/", "trees", "/", "a.py">>,
    <<"/", "z.py">> }

ParseDirs ==
  { <<"/", "lib">>, <<"/", "lib", "/", "sub">>, <<"/", "main">>, <<"/", "trees">> }

ParseBoards ==
  { t \in SUBSET ParsePaths :
      \A q \in t : Len(q) > 2 => (dirname(q) \in ParseDirs /\ dirname(q) \in t) }

ParseOrder == <<"a.py", "lib", "main", "sub", "trees", "z.py">>

\* What "fs tree -s" prints for such a board below its header: the entries
\* of a directory in name order, each followed by its own entries, which
\* are indented by "    " below the last entry of a directory and by
\* "|   " below any other.  truth is the entry the line was printed for.
RECURSIVE treeLines(_, _, _, _)
treeLines(t, dir, indent, k) ==
  IF k > Len(ParseOrder) THEN <<>>
  ELSE LET q == dir \o <<"/", ParseOrder[k]>>
           rest == treeLines(t, dir, indent, k + 1)
           isLast == \A j \in (k + 1)..Len(ParseOrder) :
                       dir \o <<"/", ParseOrder[j]>> \notin t
       IN IF q \notin t THEN rest
          ELSE IF q \in ParseDirs
          THEN <<[indent |-> indent, name |-> ParseOrder[k], size |-> Null, truth |-> q]>>
                 \o treeLines(t, q, indent \o <<IF isLast THEN "    " ELSE "|   ">>, 1)
                 \o rest
          ELSE <<[indent |-> indent, name |-> ParseOrder[k], size |-> MaxSize, truth |-> q]>>
                 \o rest

\* Both parsers run on the same output.
parseTreeOutput ==
  /\ parsePc = "idle"
  /\ parsePc' = "parsed"
  /\ parsedLines' = parseTreeLines(treeOutput, <<>>, <<>>)
  /\ filesAndSizes' = parseLines(treeOutput, <<>>, [files |-> <<>>, directories |-> {}])
  /\ UNCHANGED treeOutput
  /\ UNCHANGED <<tripVars, deleteVars, copyVars, mapVars, statsVars, treeVars>>
  /\ UNCHANGED diffVars
  /\ UNCHANGED notFs

(***************************************************************************)
(* deleteAny and its manual recursive delete.                              *)
(***************************************************************************)
\* The device paths of the board the delete runs on.
DeletePaths ==
  { <<"/", "d">>, <<"/", "d", "/", "f.py">>, <<"/", "d", "/", "tools.py">>,
    <<"/", "d", "/", "s">>, <<"/", "d", "/", "s", "/", "g.py">> }
\* The order in which "fs ls" prints them.
DeleteOrder ==
  << <<"/", "d">>, <<"/", "d", "/", "f.py">>, <<"/", "d", "/", "s">>,
     <<"/", "d", "/", "s", "/", "g.py">>, <<"/", "d", "/", "tools.py">> >>

DeleteDirs == { <<"/", "d">>, <<"/", "d", "/", "s">> }

\* The boards: every entry lies in a directory that exists.
DeleteTrees ==
  { t \in SUBSET DeletePaths :
      \A q \in t : Len(q) > 2 => (dirname(q) \in DeleteDirs /\ dirname(q) \in t) }

\* The entries of a directory of the board.
entriesOf(t, dir) == SelectSeq(DeleteOrder, LAMBDA q : q \in t /\ dirname(q) = dir)

isEmptyDir(t, dir) == entriesOf(t, dir) = <<>>

\* What "fs rm -r" removes.
subtree(t, q) == { x \in t : x = q \/ startsWith(x, q \o <<"/">>) }

NoError == [call |-> "none", message |-> "none"]

\* The messages a failing tool call can carry, by what deleteAny looks for.
ErrorMessages == {"directory not empty", "other"}

\* errorMessage.includes("oserror: 39") || errorMessage.includes("directory not empty")
isAnyError(errorMessage) == errorMessage # "none"

isDirectoryNotEmpty(errorMessage) == errorMessage = "directory not empty"

\* line.includes('ls'): written for the "ls :/d" header, true of tools.py too
includesLs(q) == q[Len(q)] = "tools.py"

\* deleteAny(p) up to the end of its try block and the branch of its catch.
\*   statOut: getFileInfo answers ("ok"), returns null ("null": not found, or
\*            an output it cannot parse) or throws ("error")
\*   rmOut:   "fs rm [-r] p" succeeds ("ok") or fails with a message
deleteAny(p, statOut, rmOut) ==
  /\ delPc = "idle"
  /\ connect # "auto"
  /\ IF statOut = "ok" THEN p \in delTree ELSE TRUE
  /\ delTarget' = p
  /\ LET isDirectory == statOut = "ok" /\ p \in DeleteDirs
         removable == /\ p \in delTree
                      /\ IF p \in DeleteDirs THEN isDirectory \/ isEmptyDir(delTree, p)
                         ELSE TRUE
         notEmpty == p \in delTree /\ p \in DeleteDirs /\ ~isEmptyDir(delTree, p)
     IN IF statOut = "error"
        THEN /\ rmOut = "other"
             /\ delError' = [call |-> "stat", message |-> "other"]
             /\ delPc' = "thrown"
             /\ UNCHANGED <<delTree, delStack, delLog, recursiveRuns>>
        ELSE /\ IF rmOut = "ok" THEN removable ELSE TRUE
             /\ IF rmOut = "directory not empty" THEN notEmpty ELSE TRUE
             /\ delLog' = Append(delLog, [cmd |-> "rm", path |-> p, ok |-> rmOut = "ok",
                                          empty |-> ~notEmpty])
             /\ IF rmOut = "ok"
                THEN /\ delTree' = delTree \ subtree(delTree, p)
                     /\ delPc' = "returned"
                     /\ UNCHANGED <<delStack, delError, recursiveRuns>>
                ELSE /\ delError' = [call |-> "rm", message |-> rmOut]
                     /\ UNCHANGED delTree
                     /\ IF isDirectoryNotEmpty(rmOut)
                        THEN /\ delPc' = "recursive"
                             /\ delStack' = <<[dir |-> p, listed |-> FALSE, lines |-> <<>>]>>
                             /\ recursiveRuns' = recursiveRuns + 1
                        ELSE /\ delPc' = "thrown"
                             /\ UNCHANGED <<delStack, recursiveRuns>>
  /\ UNCHANGED <<tripVars, copyVars, restVars>>
  /\ UNCHANGED diffVars
  /\ UNCHANGED notFs

\* deleteDirectoryRecursive(p): "fs ls p".  An error leaves every call of
\* the recursion, and deleteAny throws.
recursiveList(toolOk) ==
  /\ delPc = "recursive"
  /\ ~delStack[Len(delStack)].listed
  /\ LET top == Len(delStack)
     IN IF toolOk
        THEN /\ delStack' = [delStack EXCEPT ![top] =
                               [dir |-> @.dir, listed |-> TRUE,
                                lines |-> entriesOf(delTree, @.dir)]]
             /\ UNCHANGED delPc
        ELSE /\ delStack' = <<>>
             /\ delPc' = "thrown"
  /\ UNCHANGED <<delTree, delTarget, delLog, delError, recursiveRuns>>
  /\ UNCHANGED <<tripVars, copyVars, restVars>>
  /\ UNCHANGED diffVars
  /\ UNCHANGED notFs

\* One pass of its loop over the listed lines: a line that contains "ls" is
\* skipped, a directory is recursed into, a file is removed and an error of
\* that removal is logged and dropped.
recursiveItem(toolOk) ==
  /\ delPc = "recursive"
  /\ delStack[Len(delStack)].listed
  /\ delStack[Len(delStack)].lines # <<>>
  /\ LET top == Len(delStack)
         itemPath == Head(delStack[top].lines)
         rest == [delStack EXCEPT ![top] = [@ EXCEPT !.lines = Tail(@)]]
     IN IF includesLs(itemPath)
        THEN /\ toolOk
             /\ delStack' = rest
             /\ UNCHANGED <<delTree, delLog>>
        ELSE IF itemPath \in DeleteDirs
        THEN /\ toolOk
             /\ delStack' = Append(rest, [dir |-> itemPath, listed |-> FALSE, lines |-> <<>>])
             /\ UNCHANGED <<delTree, delLog>>
        ELSE /\ delStack' = rest
             /\ delTree' = IF toolOk THEN delTree \ {itemPath} ELSE delTree
             /\ delLog' = Append(delLog, [cmd |-> "rm", path |-> itemPath, ok |-> toolOk,
                                          empty |-> TRUE])
  /\ UNCHANGED <<delPc, delTarget, delError, recursiveRuns>>
  /\ UNCHANGED <<tripVars, copyVars, restVars>>
  /\ UNCHANGED diffVars
  /\ UNCHANGED notFs

\* After the loop: "fs rmdir p".  The board removes an empty directory only.
recursiveRmdir(toolOk) ==
  /\ delPc = "recursive"
  /\ delStack[Len(delStack)].listed
  /\ delStack[Len(delStack)].lines = <<>>
  /\ LET top == Len(delStack)
         dir == delStack[top].dir
         empty == isEmptyDir(delTree, dir)
         removed == toolOk /\ empty
     IN /\ delLog' = Append(delLog, [cmd |-> "rmdir", path |-> dir, ok |-> removed,
                                     empty |-> empty])
        /\ delTree' = IF removed THEN delTree \ {dir} ELSE delTree
        /\ delStack' = IF removed THEN SubSeq(delStack, 1, top - 1) ELSE <<>>
        /\ delPc' = IF ~removed THEN "thrown"
                    ELSE IF top = 1 THEN "returned" ELSE "recursive"
  /\ UNCHANGED <<delTarget, delError, recursiveRuns>>
  /\ UNCHANGED <<tripVars, copyVars, restVars>>
  /\ UNCHANGED diffVars
  /\ UNCHANGED notFs

(***************************************************************************)
(* cpToDevice and uploadReplacing.                                         *)
(***************************************************************************)
\* The device paths a file is copied to, and the directories above them.
CopyPaths == { <<"/", "m.py">>, <<"/", "x", "/", "m.py">>, <<"/", "x", "/", "y", "/", "m.py">> }

CopyBoards == { {}, {<<"/", "x">>}, {<<"/", "x">>, <<"/", "x", "/", "y">>} }

\* The messages a failing copy can carry, by what the catch block looks for.
CopyMessages == {"no such file or directory", "read-only file system", "other"}

\* deviceArg.split('/').filter(part => part.length > 0)
pathParts(deviceArg) == SelectSeq(deviceArg, LAMBDA part : part # "/")

\* The partialPath of each pass of the loop "for (let i = 1; i < pathParts.length; i++)"
RECURSIVE levelsFrom(_, _)
levelsFrom(parts, i) ==
  IF i >= Len(parts) THEN <<>>
  ELSE << <<"/">> \o join(SubSeq(parts, 1, i)) >> \o levelsFrom(parts, i + 1)

\* deviceArg.substring(0, deviceArg.lastIndexOf('/'))
parentDir(deviceArg) == SubSeq(deviceArg, 1, Len(deviceArg) - 2)

\* The board accepts a file or a directory only inside an existing directory.
hasParent(dirs, q) == parentDir(q) = <<>> \/ parentDir(q) \in dirs

\* errorStr.includes("no such file or directory") || errorStr.includes("file not found")
isMissingDirectory(errorStr) == errorStr = "no such file or directory"

\* The retry's catch block without the throw that follows it.
afterRetryDropped(retryOk) == "returned"

\* After the retry: return on success; on failure the catch block only logs,
\* and the function goes on to throw the error of the first copy.
afterRetry(retryOk) == IF retryOk THEN "returned" ELSE "thrown"

\* The try block of cpToDevice or uploadReplacing and the branch of its
\* catch: "fs mkdir -p parentDir", whose error is dropped, then the copy.
copyToDevice(fn, devicePath, mkdirOk, cpOut) ==
  /\ cpPc = "idle"
  /\ connect # "auto"
  /\ cpFn' = fn
  /\ cpTarget' = devicePath
  /\ LET parent == parentDir(devicePath)
         tried == parent # <<>> /\ parent # <<"/">>
         made == IF tried /\ mkdirOk
                 THEN cpDirs \cup { d \in UNION CopyBoards : startsWith(parent, d) }
                 ELSE cpDirs
         first == (IF tried THEN <<[cmd |-> "mkdir -p", path |-> parent, ok |-> mkdirOk]>>
                   ELSE <<>>)
                  \o <<[cmd |-> "cp", path |-> devicePath, ok |-> cpOut = "ok"]>>
     IN /\ IF tried THEN TRUE ELSE mkdirOk
        /\ IF hasParent(made, devicePath) THEN TRUE ELSE cpOut = "no such file or directory"
        /\ cpDirs' = made
        /\ cpLog' = first
        /\ cpError' = IF cpOut = "ok" THEN "none" ELSE cpOut
        /\ IF cpOut = "ok"
           THEN /\ cpPc' = "returned"
                /\ cpPending' = <<>>
           ELSE IF isMissingDirectory(cpOut)
           THEN /\ cpPending' = levelsFrom(pathParts(devicePath), 1)
                /\ cpPc' = IF cpPending' = <<>> THEN "retry" ELSE "mkdirs"
           ELSE /\ cpPending' = <<>>
                /\ cpPc' = IF fn = "cpToDevice" /\ cpOut = "read-only file system"
                           THEN "recovery" ELSE "thrown"
  /\ UNCHANGED <<tripVars, deleteVars, restVars>>
  /\ UNCHANGED diffVars
  /\ UNCHANGED notFs

\* One pass of the loop that creates each directory level: "fs mkdir
\* partialPath"; its error is dropped.
createLevel(toolOk) ==
  /\ cpPc = "mkdirs"
  /\ LET partialPath == Head(cpPending)
         created == toolOk /\ partialPath \notin cpDirs /\ hasParent(cpDirs, partialPath)
     IN /\ cpDirs' = IF created THEN cpDirs \cup {partialPath} ELSE cpDirs
        /\ cpLog' = Append(cpLog, [cmd |-> "mkdir", path |-> partialPath, ok |-> created])
        /\ cpPending' = Tail(cpPending)
        /\ cpPc' = IF Tail(cpPending) = <<>> THEN "retry" ELSE "mkdirs"
  /\ UNCHANGED <<cpFn, cpTarget, cpError>>
  /\ UNCHANGED <<tripVars, deleteVars, restVars>>
  /\ UNCHANGED diffVars
  /\ UNCHANGED notFs

\* The copy is run once more.
retryCopy(toolOk) ==
  /\ cpPc = "retry"
  /\ LET retryOk == toolOk /\ hasParent(cpDirs, cpTarget)
     IN /\ cpLog' = Append(cpLog, [cmd |-> "cp", path |-> cpTarget, ok |-> retryOk])
        /\ cpPc' = afterRetry(retryOk)
  /\ UNCHANGED <<cpFn, cpTarget, cpDirs, cpPending, cpError>>
  /\ UNCHANGED <<tripVars, deleteVars, restVars>>
  /\ UNCHANGED diffVars
  /\ UNCHANGED notFs

\* cpToDevice after a read-only error: a soft reset and a copy, then a
\* remount and a copy; the first copy that succeeds returns.
\*   succeeds: 1 = the copy after the reset, 2 = the copy after the remount,
\*             0 = neither
readOnlyRecovery(succeeds) ==
  /\ cpPc = "recovery"
  /\ IF succeeds > 0 THEN hasParent(cpDirs, cpTarget) ELSE TRUE
  /\ cpLog' = cpLog
       \o <<[cmd |-> "cp", path |-> cpTarget, ok |-> succeeds = 1]>>
       \o (IF succeeds = 1 THEN <<>>
           ELSE <<[cmd |-> "cp", path |-> cpTarget, ok |-> succeeds = 2]>>)
  /\ cpPc' = IF succeeds > 0 THEN "returned" ELSE "thrown"
  /\ UNCHANGED <<cpFn, cpTarget, cpDirs, cpPending, cpError>>
  /\ UNCHANGED <<tripVars, deleteVars, restVars>>
  /\ UNCHANGED diffVars
  /\ UNCHANGED notFs

(***************************************************************************)
(* Initial states.                                                         *)
(***************************************************************************)
InitGate ==
  /\ opQueue = 0
  /\ opPc = [i \in Ops |-> "new"]
  /\ opPred = [i \in Ops |-> 0]
  /\ opWasOpen = [i \in Ops |-> FALSE]
  /\ opPreempt = [i \in Ops |-> FALSE]
  /\ opVia = [i \in Ops |-> "unsubmitted"]
  /\ usageOpQueue = 0
  /\ fnCalls = [i \in Ops |-> 0]
  /\ skipOwner = 0
  /\ opParent = [i \in Ops |-> 0]
  /\ opBypass = [i \in Ops |-> 0]
  /\ skipIdleOnce = FALSE
  /\ enabled = TRUE
  /\ connect = "auto"
  /\ replTerminal = FALSE
  /\ replAttached = FALSE

InitRun ==
  /\ callPc = [c \in Calls |-> "new"]
  /\ callPort = [c \in Calls |-> "p1"]
  /\ callRetry = [c \in Calls |-> TRUE]
  /\ attempt = [c \in Calls |-> 0]
  /\ launches = [c \in Calls |-> 0]
  /\ killed = [c \in Calls |-> FALSE]
  /\ activeConnections = [port \in Ports |-> NoConnection]
  /\ currentChild = 0
  /\ timerMs = [c \in Calls |-> 0]
  /\ lastError = [c \in Calls |-> "ok"]
  /\ atCancel = {}

InitCache ==
  /\ now = 0
  /\ boardVersion = 0
  /\ globalFileTreeCache = Null
  /\ lastTreeUpdate = 0
  /\ treePathsFile = NoFile
  /\ mutPc = "idle"
  /\ mutOp = "mkdir"
  /\ listPc = "idle"
  /\ listOp = "lsTyped"
  /\ listSnap = Null
  /\ known = 0
  /\ lastReturn = [op |-> "mkdir", ok |-> FALSE, cacheNull |-> TRUE]
  /\ lastListing = [source |-> "none", version |-> Null, known |-> 0, failed |-> FALSE]

\* No checkDiffs has run.
InitDiffRuns ==
  /\ diffRuns = 0
  /\ diffs = {}
  /\ localOnly = {}
  /\ boardOnly = {}
  /\ prevDiffs = <<{}, {}, {}>>

\* An empty workspace folder and an empty board.
InitDiff ==
  /\ rootPath = <<"/">>
  /\ workspace = [r \in RelPaths |-> Null]
  /\ unreadable = {}
  /\ ignored = {}
  /\ board = [p \in BoardPaths |-> Null]
  /\ InitDiffRuns

\* Any workspace folder and any board within the bounds.
InitDiffInputs ==
  /\ rootPath \in Roots
  /\ workspace \in [RelPaths -> Sizes \cup {Null}]
  /\ unreadable \in {{}, {<<"a.py">>}}
  /\ \A r \in unreadable : workspace[r] # Null
  /\ ignored \in {{}, {<<"a.py">>}}
  /\ \A r \in ignored : workspace[r] = Null
  /\ board \in [BoardPaths -> Sizes \cup {Null}]
  /\ InitDiffRuns

\* No transfer has started.
InitTransfer ==
  /\ localGone = {}
  /\ basePc = "idle"
  /\ files = <<>>
  /\ sortedDirectories = <<>>
  /\ dirIdx = 1
  /\ attempts = 0
  /\ failedDirectories = <<>>
  /\ verificationFailures = <<>>
  /\ stillMissing = <<>>
  /\ validFiles = <<>>
  /\ missingFiles = <<>>
  /\ fileIdx = 1
  /\ uploaded = 0
  /\ failed = 0
  /\ copyLog = <<>>
  /\ loopKind = "BoardOperations.syncBaselineFromBoard"
  /\ loopPc = "idle"
  /\ toTransfer = <<>>
  /\ loopIdx = 1
  /\ loopAttempted = {}
  /\ loopTransferred = {}

\* No round trip, no deleteAny and no copy has started.
InitTrip ==
  /\ tripPc = "idle"
  /\ statsSource = "tree"
  /\ folder = {}

InitDelete ==
  /\ delPc = "idle"
  /\ delTree = {}
  /\ delTarget = <<"/">>
  /\ delStack = <<>>
  /\ delLog = <<>>
  /\ delError = NoError
  /\ recursiveRuns = 0

InitCopy ==
  /\ cpPc = "idle"
  /\ cpFn = "cpToDevice"
  /\ cpTarget = <<"/">>
  /\ cpDirs = {}
  /\ cpPending = <<>>
  /\ cpLog = <<>>
  /\ cpError = "none"

InitParse ==
  /\ treeOutput = <<>>
  /\ parsePc = "idle"
  /\ parsedLines = <<>>
  /\ filesAndSizes = [files |-> <<>>, directories |-> {}]

InitMap ==
  /\ mapPc = "idle"
  /\ mapFn = "BoardOperations"
  /\ mapRel = <<>>
  /\ mapDevice = <<>>
  /\ mapRelBack = <<>>
  /\ mapDeviceBack = <<>>

InitStats ==
  /\ statsDone = {}
  /\ statsThrown = FALSE
  /\ statsOf = [file |-> <<>>, tree |-> <<>>]

InitTree ==
  /\ nodeCache = [d \in TreeDirs |-> NoEntry]
  /\ listedDirs = {}
  /\ lastChildren = [dir |-> <<>>, from |-> "none", nodes |-> {}, listed |-> FALSE]

InitRest == InitParse /\ InitMap /\ InitStats /\ InitTree

InitFs == InitTrip /\ InitDelete /\ InitCopy /\ InitRest

\* Any workspace folder within the bounds, on a board with or without /lib.
InitTransferInputs ==
  /\ rootPath \in Roots
  /\ workspace \in [RelPaths -> {Null, MaxSize}]
  /\ unreadable = {}
  /\ ignored = {}
  /\ board = [p \in BoardPaths |-> Null]
  /\ InitDiffRuns
  /\ boardDirs \in {{}, {<<"/", "lib">>}}
  /\ InitTransfer

Init ==
  InitGate /\ InitRun /\ InitCache /\ InitDiff /\ boardDirs = {} /\ InitTransfer /\ InitFs

(***************************************************************************)
(* SpecQueue: the operation queue and the REPL terminal.                   *)
(***************************************************************************)
NextQueue ==
  \/ \E i \in Ops, preempt \in BOOLEAN : withAutoSuspend(i, preempt)
  \/ \E i \in Ops : boardOperationsWithAutoSuspend(i)
  \/ \E i \in Ops, preempt \in BOOLEAN : usageWithAutoSuspend(i, preempt)
  \/ \E i \in Ops : renameNode(i)
  \/ \E i \in Ops : queuedStart(i)
  \/ \E i \in Ops : detachDone(i)
  \/ \E i \in Ops : ensureIdleDone(i)
  \/ \E i \in Ops : bodyDone(i)
  \/ \E i \in Ops : restartRepl(i)
  \/ \E i \in Ops : restartDone(i)
  \/ setSkipIdleOnce
  \/ setSerialAutoSuspend
  \/ setPort
  \/ openReplTerminal
  \/ closeReplTerminal
  \/ cancelAllTasks

SpecQueue == Init /\ [][NextQueue]_vars

(***************************************************************************)
(* SpecSubmit: operations submitted to withAutoSuspend, with the cancel    *)
(* command.  Every step of a chained callback is taken once it can be: the *)
(* 200 ms waits end, ensureIdle returns and the body's promise settles.    *)
(***************************************************************************)
NextSubmit ==
  \/ \E i \in Ops, preempt \in BOOLEAN : withAutoSuspend(i, preempt)
  \/ \E i \in Ops : queuedStart(i)
  \/ \E i \in Ops : detachDone(i)
  \/ \E i \in Ops : ensureIdleDone(i)
  \/ \E i \in Ops : bodyDone(i)
  \/ \E i \in Ops : restartRepl(i)
  \/ \E i \in Ops : restartDone(i)
  \/ setSkipIdleOnce
  \/ setSerialAutoSuspend
  \/ setPort
  \/ openReplTerminal
  \/ closeReplTerminal
  \/ cancelAllTasks

SpecSubmit ==
  /\ Init /\ [][NextSubmit]_vars
  /\ \A i \in Ops : WF_vars(queuedStart(i))
  /\ \A i \in Ops : WF_vars(detachDone(i))
  /\ \A i \in Ops : WF_vars(ensureIdleDone(i))
  /\ \A i \in Ops : WF_vars(bodyDone(i))
  /\ \A i \in Ops : WF_vars(restartRepl(i))
  /\ \A i \in Ops : WF_vars(restartDone(i))

(***************************************************************************)
(* SpecRun: runMpremote calls on the connection manager.                   *)
(***************************************************************************)
NextRun ==
  \/ \E c \in Calls, port \in Ports, retry \in BOOLEAN : runMpremote(c, port, retry)
  \/ \E c \in Calls : timerFires(c)
  \/ \E c \in Calls, out \in Outcomes : childExits(c, out)
  \/ \E port \in Ports : connectionAges(port)
  \/ cleanup
  \/ cancelAllTasks

SpecRun == Init /\ [][NextRun]_vars

\* A timer that is set fires, and a subprocess that was launched exits.
SpecRunFair ==
  /\ SpecRun
  /\ \A c \in Calls : WF_vars(timerFires(c))
  /\ \A c \in Calls : WF_vars(\E out \in Outcomes : childExits(c, out))

(***************************************************************************)
(* SpecCache: mutating and listing calls on the two tree caches.           *)
(***************************************************************************)
NextCache ==
  \/ setPort
  \/ tick
  \/ \E op \in MutatingOps : mutatingCall(op)
  \/ \E ok \in BOOLEAN : mutatingTool(ok)
  \/ mutatingReturn
  \/ \E op \in ListingOps : listingCall(op, TRUE)
  \/ \E ok \in BOOLEAN : treeTool(ok)
  \/ populateFileTreeCache(TRUE)
  \/ listTreeStatsLive

SpecCache == Init /\ [][NextCache]_vars

(***************************************************************************)
(* The listing functions by themselves, for paths with and without entries *)
(* in the tree: SpecCache lists paths that have entries.                   *)
(***************************************************************************)
NextListing ==
  \/ setPort
  \/ tick
  \/ \E op \in ListingOps, found \in BOOLEAN : listingCall(op, found)
  \/ \E ok \in BOOLEAN : treeTool(ok)
  \/ \E found \in BOOLEAN : populateFileTreeCache(found)
  \/ listTreeStatsLive
  \/ \E found \in BOOLEAN : lsTypedDirect(found)
  \/ \E ok \in BOOLEAN : lsTypedFallback(ok)

SpecListing == Init /\ [][NextListing]_vars

(***************************************************************************)
(* SpecDiff: checkDiffs on every workspace and board within the bounds.    *)
(***************************************************************************)
NextDiff ==
  \/ setPort
  \/ \E ok \in BOOLEAN : checkDiffs(ok)

InitSpecDiff ==
  /\ InitGate /\ InitRun /\ InitCache /\ InitDiffInputs /\ boardDirs = {} /\ InitTransfer
  /\ InitFs

SpecDiff == InitSpecDiff /\ [][NextDiff]_vars

(***************************************************************************)
(* SpecTransfer: one baseline upload, or one download or diff transfer,    *)
(* on every workspace within the bounds.                                   *)
(***************************************************************************)
NextTransfer ==
  \/ setPort
  \/ \E r \in RelPaths : localDelete(r)
  \/ syncBaseline
  \/ \E toolOk \in BOOLEAN : baselineMkdir(toolOk)
  \/ \E toolOk \in BOOLEAN : baselineVerify(toolOk)
  \/ \E toolOk \in BOOLEAN : baselineRetryMkdir(toolOk)
  \/ \E toolOk \in BOOLEAN : baselineReverify(toolOk)
  \/ baselineValidate
  \/ baselineDoubleCheck
  \/ \E out \in CopyOutcomes : baselineCopy(out)
  \/ \E kind \in Downloads \cup Uploads, n \in 1..MaxBatch : transferLoop(kind, n)
  \/ \E toolOk \in BOOLEAN : transferNext(toolOk)

InitSpecTransfer == InitGate /\ InitRun /\ InitCache /\ InitTransferInputs /\ InitFs

SpecTransfer == InitSpecTransfer /\ [][NextTransfer]_vars

(***************************************************************************)
(* SpecRoundTrip: a baseline upload to an empty board, then a baseline     *)
(* download into an empty folder, for every manifest within the bounds.    *)
(***************************************************************************)
InitSpecRoundTrip ==
  /\ InitGate /\ InitRun /\ InitCache /\ boardDirs = {} /\ InitTransfer /\ InitFs
  /\ rootPath \in Roots
  /\ workspace \in [RelPaths -> Sizes \cup {Null}]
  /\ \A r \in RelPaths : workspace[r] # Null => posixJoin(rootPath, r) \in BoardPaths
  /\ unreadable = {}
  /\ ignored = {}
  /\ board = [p \in BoardPaths |-> Null]
  /\ InitDiffRuns

NextRoundTrip ==
  \/ setPort
  \/ syncBaselineCompletes
  \/ \E source \in {"file", "tree"} : syncBaselineFromBoard(source)

SpecRoundTrip == InitSpecRoundTrip /\ [][NextRoundTrip]_vars

(***************************************************************************)
(* SpecMap: the path mappings on every root and relative path within the   *)
(* bounds.                                                                 *)
(***************************************************************************)
InitSpecMap ==
  /\ InitGate /\ InitRun /\ InitCache /\ boardDirs = {} /\ InitTransfer
  /\ InitTrip /\ InitDelete /\ InitCopy /\ InitParse /\ InitStats /\ InitTree
  /\ rootPath \in Roots
  /\ workspace = [r \in RelPaths |-> Null]
  /\ unreadable = {}
  /\ ignored = {}
  /\ board = [q \in BoardPaths |-> Null]
  /\ InitDiffRuns
  /\ mapPc = "idle"
  /\ mapFn = "BoardOperations"
  /\ mapRel \in MapRelPaths
  /\ mapDevice = <<>>
  /\ mapRelBack = <<>>
  /\ mapDeviceBack = <<>>

NextMap == \E fn \in {"BoardOperations", "mpremoteCommands"} : mapPaths(fn)

SpecMap == InitSpecMap /\ [][NextMap]_vars

(***************************************************************************)
(* SpecParse: the parsers on the tree output of every board of ParseBoards.*)
(***************************************************************************)
InitSpecParse ==
  /\ InitGate /\ InitRun /\ InitCache /\ InitDiff /\ boardDirs = {} /\ InitTransfer
  /\ InitTrip /\ InitDelete /\ InitCopy
  /\ InitMap /\ InitStats /\ InitTree
  /\ treeOutput \in { treeLines(t, <<>>, <<>>, 1) : t \in ParseBoards }
  /\ parsePc = "idle"
  /\ parsedLines = <<>>
  /\ filesAndSizes = [files |-> <<>>, directories |-> {}]

NextParse == parseTreeOutput

SpecParse == InitSpecParse /\ [][NextParse]_vars

(***************************************************************************)
(* SpecDelete: one deleteAny call on every board within the bounds.        *)
(***************************************************************************)
InitSpecDelete ==
  /\ InitGate /\ InitRun /\ InitCache /\ InitDiff /\ boardDirs = {} /\ InitTransfer
  /\ InitTrip /\ InitCopy /\ InitRest
  /\ delPc = "idle"
  /\ delTree \in DeleteTrees
  /\ delTarget = <<"/">>
  /\ delStack = <<>>
  /\ delLog = <<>>
  /\ delError = NoError
  /\ recursiveRuns = 0

NextDelete ==
  \/ setPort
  \/ \E q \in DeletePaths, statOut \in {"ok", "null", "error"},
        rmOut \in {"ok"} \cup ErrorMessages : deleteAny(q, statOut, rmOut)
  \/ \E toolOk \in BOOLEAN : recursiveList(toolOk)
  \/ \E toolOk \in BOOLEAN : recursiveItem(toolOk)
  \/ \E toolOk \in BOOLEAN : recursiveRmdir(toolOk)

SpecDelete == InitSpecDelete /\ [][NextDelete]_vars

(***************************************************************************)
(* SpecCopy: one cpToDevice or uploadReplacing call on every board within  *)
(* the bounds.                                                             *)
(***************************************************************************)
InitSpecCopy ==
  /\ InitGate /\ InitRun /\ InitCache /\ InitDiff /\ boardDirs = {} /\ InitTransfer
  /\ InitTrip /\ InitDelete /\ InitRest
  /\ cpPc = "idle"
  /\ cpFn = "cpToDevice"
  /\ cpTarget = <<"/">>
  /\ cpDirs \in CopyBoards
  /\ cpPending = <<>>
  /\ cpLog = <<>>
  /\ cpError = "none"

NextCopy ==
  \/ setPort
  \/ \E fn \in {"cpToDevice", "uploadReplacing"}, devicePath \in CopyPaths,
        mkdirOk \in BOOLEAN, cpOut \in {"ok"} \cup CopyMessages :
          copyToDevice(fn, devicePath, mkdirOk, cpOut)
  \/ \E toolOk \in BOOLEAN : createLevel(toolOk)
  \/ \E toolOk \in BOOLEAN : retryCopy(toolOk)
  \/ \E succeeds \in 0..2 : readOnlyRecovery(succeeds)

SpecCopy == InitSpecCopy /\ [][NextCopy]_vars

(***************************************************************************)
(* The directory plan of the baseline upload, for manifests of nested      *)
(* files in any key order.                                                 *)
(***************************************************************************)
PlanPaths ==
  { <<"a", "/", "b", "/", "c", "/", "file.py">>, <<"a", "/", "file2.py">>,
    <<"main.py">>, <<"lib", "/", "x.py">> }

PlanManifests ==
  { m \in UNION { [1..n -> PlanPaths] : n \in 1..MaxPlanFiles } :
      \A i, j \in DOMAIN m : i # j => m[i] # m[j] }

InitSpecPlan ==
  /\ InitGate /\ InitRun /\ InitCache /\ InitFs
  /\ rootPath \in Roots
  /\ workspace = [r \in RelPaths |-> Null]
  /\ unreadable = {}
  /\ ignored = {}
  /\ board = [p \in BoardPaths |-> Null]
  /\ InitDiffRuns
  /\ boardDirs = {}
  /\ localGone = {}
  /\ basePc = "idle"
  /\ files \in PlanManifests
  /\ sortedDirectories = <<>>
  /\ dirIdx = 1
  /\ attempts = 0
  /\ failedDirectories = <<>>
  /\ verificationFailures = <<>>
  /\ stillMissing = <<>>
  /\ validFiles = <<>>
  /\ missingFiles = <<>>
  /\ fileIdx = 1
  /\ uploaded = 0
  /\ failed = 0
  /\ copyLog = <<>>
  /\ loopKind = "BoardOperations.syncBaselineFromBoard"
  /\ loopPc = "idle"
  /\ toTransfer = <<>>
  /\ loopIdx = 1
  /\ loopAttempted = {}
  /\ loopTransferred = {}

NextPlan == planDirectories

SpecPlan == InitSpecPlan /\ [][NextPlan]_vars

(***************************************************************************)
(* C1: operations that take the queued path of withAutoSuspend run one at  *)
(* a time: no two of them are inside their body fn() at the same moment.   *)
(***************************************************************************)
C1_OneBodyAtATime ==
  \A i, j \in Ops : i # j => ~(opPc[i] = "body" /\ opPc[j] = "body")

(***************************************************************************)
(* C2: at most one subprocess launched by runMpremote for a given port is  *)
(* running at any time.                                                    *)
(***************************************************************************)
C2_OneChildPerPort ==
  \A c, d \in Calls :
    (c # d /\ callPc[c] = "running" /\ callPc[d] = "running") => callPort[c] # callPort[d]

(***************************************************************************)
(* C3: the REPL session never holds the serial line while the body of a    *)
(* queued operation is running.                                            *)
(***************************************************************************)
C3_SingleHolder ==
  ~(replAttached /\ \E i \in Ops : opPc[i] = "body")

(***************************************************************************)
(* C4: whenever a mutating remote operation returns successfully, the      *)
(* in-memory file-tree cache has been cleared.                             *)
(***************************************************************************)
C4_ClearedOnSuccess == lastReturn.ok => lastReturn.cacheNull

(***************************************************************************)
(* C5: listTreeStats never answers from a tree-paths.json that was written *)
(* from a tree older than a mutation known to have succeeded.              *)
(***************************************************************************)
C5_NoStaleTreePaths ==
  lastListing.source = "file" => lastListing.version >= lastListing.known

(***************************************************************************)
(* C6: after checkDiffs, a file that is in the local manifest with a       *)
(* readable size and on the board under the same relative path is in the   *)
(* changed set if and only if the two sizes differ.                        *)
(***************************************************************************)
C6_ChangedIffSizesDiffer ==
  diffRuns > 0 =>
    \A r \in RelPaths :
      LET p == toDevicePath(r, rootPath)
      IN (/\ workspace[r] # Null
          /\ r \notin unreadable
          /\ r \notin ignored
          /\ p \in BoardPaths
          /\ board[p] # Null)
         => (p \in diffs <=> workspace[r] # board[p])

(***************************************************************************)
(* C7: a second checkDiffs on the same workspace and board stores the same *)
(* three sets as the first, and when the manifest and the board hold the   *)
(* same relative paths with the same sizes the three sets are empty.       *)
(***************************************************************************)
SameOnBothSides ==
  /\ unreadable = {}
  /\ ignored = {}
  /\ \A r \in RelPaths :
       workspace[r] # Null =>
         /\ toDevicePath(r, rootPath) \in BoardPaths
         /\ board[toDevicePath(r, rootPath)] = workspace[r]
  /\ \A p \in BoardPaths :
       board[p] # Null =>
         \E r \in RelPaths : toDevicePath(r, rootPath) = p /\ workspace[r] = board[p]

C7_IdempotentAndEmptyWhenEqual ==
  /\ diffRuns = 2 => prevDiffs = <<diffs, localOnly, boardOnly>>
  /\ (diffRuns > 0 /\ SameOnBothSides) =>
       (diffs = {} /\ localOnly = {} /\ boardOnly = {})

(***************************************************************************)
(* C8: when the baseline upload has completed, every manifest file that    *)
(* exists locally has had exactly one cpToDevice call of its own, whatever *)
(* the outcome of the calls before it, and no file has had more than one;  *)
(* when the baseline has thrown, it is for directories that are still      *)
(* missing and no copy had been called yet.                                *)
(***************************************************************************)
copyCalls(r) == Cardinality({ i \in DOMAIN copyLog : copyLog[i].file = r })

C8_EveryFileIsAttempted ==
  /\ basePc = "completed" =>
       \A i \in DOMAIN files :
         /\ copyCalls(files[i]) <= 1
         /\ accessible(files[i]) => copyCalls(files[i]) = 1
  /\ basePc = "thrown" => (copyLog = <<>> /\ failed = 0 /\ stillMissing # <<>>)

\* A completed baseline whose first two copies failed and whose third succeeded.
C8_Witness ==
  /\ basePc = "completed"
  /\ Len(copyLog) = 3
  /\ ~copyLog[1].ok /\ ~copyLog[2].ok /\ copyLog[3].ok
  /\ failed = 2 /\ uploaded = 1

(***************************************************************************)
(* C9: when the loop of a baseline download or of a diff transfer has      *)
(* ended, a copy has been called for every file of its list (for an        *)
(* upload: every file of its list that exists locally).                    *)
(***************************************************************************)
C9_LoopAttemptsEveryFile ==
  (connect # "auto" /\ loopPc \in {"completed", "thrown"}) =>
    \A i \in DOMAIN toTransfer :
      (loopKind \in Downloads \/ accessible(toLocalRelative(toTransfer[i], rootPath)))
        => toTransfer[i] \in loopAttempted

(***************************************************************************)
(* C10 as stated: when the baseline upload has completed, uploaded plus    *)
(* failed is the number of manifest files, and every file whose local      *)
(* source was missing is one of the failures.                              *)
(***************************************************************************)
C10_TallyCoversManifest ==
  basePc = "completed" =>
    /\ uploaded + failed = Len(files)
    /\ failed >= Len(missingFiles)

(***************************************************************************)
(* C10 amended: when the baseline upload has completed, uploaded plus      *)
(* failed is the number of manifest files that passed the first fs.access  *)
(* (validFiles); the files that were missing then (missingFiles) are       *)
(* counted in neither.  uploaded is the number of cpToDevice calls that    *)
(* succeeded, and failed is the number that threw plus the number of valid *)
(* files that were gone at the second fs.access and had no copy call.      *)
(***************************************************************************)
C10_TallyCoversValidFiles ==
  basePc = "completed" =>
    /\ Len(validFiles) + Len(missingFiles) = Len(files)
    /\ uploaded + failed = Len(validFiles)
    /\ uploaded = Cardinality({ i \in DOMAIN copyLog : copyLog[i].ok })
    /\ failed = Cardinality({ i \in DOMAIN copyLog : ~copyLog[i].ok })
                + Cardinality({ i \in DOMAIN validFiles : copyCalls(validFiles[i]) = 0 })

\* A completed baseline of three manifest files: one was missing at the first
\* fs.access and is in no count, one was gone at the second and is one failure.
C10_Witness ==
  /\ basePc = "completed"
  /\ Len(files) = 3
  /\ Len(missingFiles) = 1
  /\ Len(copyLog) = 1
  /\ uploaded = 1 /\ failed = 1

\* C11: a batch transfer that ends with at least one failed file reports how
\* many files succeeded and how many failed, never a plain completion.
C11_ReportCarriesTally ==
  (connect # "auto" /\ basePc = "completed" /\ failed > 0) =>
     baselineMessage.counts = <<uploaded, failed>>

\* C12: during a baseline upload mkdir is attempted for a directory only when
\* its parent, if the plan holds it, is on the board: created in this run or
\* there from before.
C12_MkdirOnlyUnderExistingParent ==
  (connect # "auto" /\ basePc = "mkdir") =>
     LET deviceDir == sortedDirectories[dirIdx]
         planned == { sortedDirectories[i] : i \in DOMAIN sortedDirectories }
     IN IF dirname(deviceDir) \in planned THEN dirname(deviceDir) \in boardDirs
        ELSE TRUE

\* The directories above a device path and below the remote root.
ancestorsBelow(devicePath, root) ==
  LET normRoot == IF root = <<"/">> THEN root ELSE stripTrailingSlash(root)
  IN { SubSeq(devicePath, 1, k) :
         k \in { n \in 2..(Len(devicePath) - 2) :
                  devicePath[n + 1] = "/" /\ devicePath[n] # "/" /\ n > Len(normRoot) } }

isAncestor(a, b) ==
  Len(a) < Len(b) /\ SubSeq(b, 1, Len(a)) = a /\ b[Len(a) + 1] = "/"

ExampleFiles == << <<"a", "/", "b", "/", "c", "/", "file.py">>, <<"a", "/", "file2.py">> >>

ExamplePlan == << <<"/", "a">>, <<"/", "a", "/", "b">>, <<"/", "a", "/", "b", "/", "c">> >>

\* C13: the directory plan of a baseline upload holds every directory that
\* lies above a file of the manifest and below the remote root, and holds
\* each directory after all the directories above it; for a/b/c/file.py and
\* a/file2.py under the root / it is /a, /a/b, /a/b/c.
C13_PlanHoldsAncestorsInOrder ==
  basePc = "planned" =>
    /\ \A i \in DOMAIN files :
         \A d \in ancestorsBelow(posixJoin(rootPath, files[i]), rootPath) :
            \E j \in DOMAIN sortedDirectories : sortedDirectories[j] = d
    /\ \A i, j \in DOMAIN sortedDirectories :
         isAncestor(sortedDirectories[i], sortedDirectories[j]) => i < j
    /\ (rootPath = <<"/">> /\ files = ExampleFiles) => sortedDirectories = ExamplePlan

C13_Witness ==
  /\ basePc = "planned"
  /\ rootPath = <<"/">>
  /\ files = ExampleFiles
  /\ sortedDirectories = ExamplePlan

\* C14: a baseline upload fails as a whole exactly when a planned directory
\* is still not on the board after the creation loop, the verification, the
\* extra creation pass and the second verification; otherwise it goes on to
\* the copy of the files.
C14_FailsIffDirectoryMissing ==
  LET missing == { i \in DOMAIN sortedDirectories : sortedDirectories[i] \notin boardDirs }
  IN connect # "auto" =>
       /\ basePc = "thrown" => missing # {}
       /\ basePc \in {"validate", "copy", "cp", "completed"} => missing = {}

\* C15: a listing whose tool invocation failed raises an error; no listing
\* function answers with an empty list in place of the failed invocation.
C15_FailedListingRaises ==
  connect # "auto" => ~(lastListing.failed /\ lastListing.source = "empty")

\* What C16 says of every state of a call.
RetriesAreBounded ==
  \A c \in Calls :
    LET most == IF callRetry[c] THEN 3 ELSE 1
    IN /\ launches[c] <= most
       /\ callPc[c] = "backoff" =>
            /\ lastError[c] \in Transient
            /\ launches[c] < most
            /\ timerMs[c] = 500 * launches[c]
       /\ callPc[c] = "rejected" =>
            /\ lastError[c] # "ok"
            /\ lastError[c] \in Transient => launches[c] = most

\* C16: every runMpremote call settles, after at most three launches of the
\* tool, or one when retryOnFailure is false: it launches again only after a
\* transient connection error, 500 ms times the number of the attempt after
\* it, and it rejects with the last error when the attempts are used up.
C16_SettlesWithinThreeLaunches ==
  /\ []RetriesAreBounded
  /\ \A c \in Calls :
       (callPc[c] \in {"polling", "running", "backoff"}) ~>
         (callPc[c] \in {"resolved", "rejected"})

C16_Witness ==
  \E c \in Calls :
    /\ callPc[c] = "rejected"
    /\ callRetry[c]
    /\ launches[c] = 3
    /\ lastError[c] \in Transient

\* C17: with no concrete port configured (the connection is "auto") an
\* operation that needs one fails before it launches a subprocess: no tool
\* subprocess of a listing is in flight.
C17_NoSubprocessWithoutPort ==
  connect = "auto" => listPc \notin {"populating", "live", "direct", "fallback"}

\* C18: with no concrete port selected the baseline upload ends at its
\* first remote call: the failing mkdir is not tried again, and the upload
\* does not go on to its completion message.
C18_ConfigErrorEndsOperation ==
  connect = "auto" =>
     /\ attempts = 0
     /\ basePc = "completed" => (sortedDirectories = <<>> /\ validFiles = <<>>)

\* C19: once the cancel command has run, no subprocess that was running
\* when it ran is still running.
C19_CancelStopsEveryChild ==
  \A e \in atCancel :
     ~(callPc[e[1]] = "running" /\ launches[e[1]] = e[2] /\ ~killed[e[1]])

\* C20: a cancel during the copy loop of a baseline upload ends the loop:
\* no file after the one whose copy was cancelled is attempted.
C20_CancelTruncatesBatch ==
  \A i \in DOMAIN copyLog : copyLog[i].cancelled => i = Len(copyLog)

\* C21: every board operation in flight was issued through the extension's
\* withAutoSuspend and its opQueue: none was issued outside it or through
\* another queue.
C21_SingleQueue ==
  \A i \in Ops : opPc[i] \in {"body", "direct"} => opVia[i] = "withAutoSuspend"

\* C22: for an operation on the queued path that found the REPL terminal
\* open, the REPL is detached when its body starts, and it is attached
\* again, if the terminal is still there, by the step that follows its body.
C22_DetachedAroundBody ==
  [][\A i \in Ops :
       /\ (opWasOpen[i] /\ opPc[i] = "ensureIdle" /\ opPc'[i] = "body") => ~replAttached'
       /\ (opWasOpen[i] /\ opPc[i] = "restart" /\ opPc'[i] = "settling") =>
             replAttached' = replTerminal']_vars

\* C23: a withAutoSuspend call with preempt runs next: its callback is
\* chained on a settled promise, so its body does not wait for an
\* operation that was queued before it and has not started.
C23_PreemptRunsNext ==
  \A i \in Ops : (opPreempt[i] /\ opPc[i] = "queued") => Settled(opPred[i])

\* A preempting operation is in its body while an operation queued before
\* it still waits for its predecessor.
C23_Witness ==
  \E i, j \in Ops :
    /\ j < i
    /\ opPc[j] = "queued" /\ ~Settled(opPred[j])
    /\ opVia[i] = "withAutoSuspend" /\ opVia[j] = "withAutoSuspend"
    /\ opPreempt[i] /\ opPc[i] = "body"

C25_LocalOnlyUnderDevicePath ==
  diffRuns > 0 =>
    \A r \in RelPaths :
      LET p == toDevicePath(r, rootPath)
      IN (workspace[r] # Null /\ (IF p \in BoardPaths THEN board[p] = Null ELSE TRUE))
         => (p \in localOnly /\ p \notin diffs)

\* C26: after checkDiffs remote-only holds the board files that are not
\* ignored and whose relative path is not in the manifest, and nothing else.
C26_RemoteOnlyIsTheUnmatched ==
  diffRuns > 0 =>
    boardOnly = { p \in BoardPaths :
                    /\ board[p] # Null
                    /\ relFromDevice(p, rootPath) \notin ignored
                    /\ relFromDevice(p, rootPath) \notin localFiles }

\* C27: a baseline upload followed at once by a baseline download into an
\* empty folder gives the folder the relative paths the upload started from,
\* each with its size.
C27_RoundTripRecreatesFolder ==
  tripPc \in {"downloaded", "thrown"} => folder = originalFolder

\* C28: deleteAny calls the manual recursive delete at most once, only after
\* its remove failed with a directory-not-empty message, and after any other
\* failure it throws without calling it.
C28_RecursionOnlyOnNotEmpty ==
  /\ recursiveRuns <= 1
  /\ recursiveRuns = 1 => (delError.call = "rm" /\ delError.message = "directory not empty")
  /\ (delError.message \notin {"none", "directory not empty"})
        => (delPc = "thrown" /\ recursiveRuns = 0)

C28_Witness ==
  /\ recursiveRuns = 1
  /\ delPc = "returned"
  /\ \E i \in DOMAIN delLog : delLog[i].cmd = "rmdir" /\ delLog[i].path = delTarget

\* C29: in the manual recursive delete every rmdir is issued on a directory
\* that is empty by then: all its entries have been deleted before.
C29_RmdirOnEmptyDirectory ==
  \A i \in DOMAIN delLog : delLog[i].cmd = "rmdir" => delLog[i].empty

\* The commands of one kind in the log of a copy call.
commandsOf(cmd) == SelectSeq(cpLog, LAMBDA e : e.cmd = cmd)

pathsOf(entries) == [i \in DOMAIN entries |-> entries[i].path]

\* C30: after a copy failed with a missing-directory error, a mkdir is issued
\* for every directory level above the file, in order, and then the copy is
\* run once more and only once; the call returns when that copy succeeds
\* and throws when it fails.
C30_OneRetryAfterMkdirs ==
  cpError = "no such file or directory" =>
    /\ Len(commandsOf("cp")) <= 2
    /\ cpPc \in {"returned", "thrown"} =>
          /\ Len(commandsOf("cp")) = 2
          /\ pathsOf(commandsOf("mkdir")) = levelsFrom(pathParts(cpTarget), 1)
          /\ cpLog[Len(cpLog)].cmd = "cp"
          /\ (cpPc = "thrown") = ~cpLog[Len(cpLog)].ok

C30_Witness ==
  /\ cpError = "no such file or directory"
  /\ cpPc = "thrown"
  /\ Len(commandsOf("cp")) = 2
  /\ Len(commandsOf("mkdir")) = 2

\* The lines a parser makes an entry of, in order.
entryLines == SelectSeq(treeOutput, LAMBDA line : ~includesTree(line))

fileLines == SelectSeq(entryLines, LAMBDA line : line.size # Null)

\* C31: every entry either parser makes of a line has the full path of the
\* board entry the line was printed for: its directory's path joined with
\* its name, at every depth.
C31_FullPathIsParentJoinedWithName ==
  parsePc = "parsed" =>
    /\ \A i \in DOMAIN parsedLines : parsedLines[i].path = entryLines[i].truth
    /\ \A i \in DOMAIN filesAndSizes.files : filesAndSizes.files[i].path = fileLines[i].truth

\* C32: a relative path mapped to a device path and back is the same
\* relative path, and that device path mapped to a relative path and back
\* is the same device path but for a trailing slash.
C32_MappingsRoundTrip ==
  mapPc = "mapped" =>
    /\ mapRelBack = mapRel
    /\ stripTrailingSlash(mapDeviceBack) = stripTrailingSlash(mapDevice)

C32_Witness ==
  /\ mapPc = "mapped"
  /\ rootPath = <<"/", "app", "/">>
  /\ mapRel = <<"app", "/", "y.py">>
  /\ mapDevice = <<"/", "app", "/", "app", "/", "y.py">>
  /\ mapRelBack = mapRel

(***************************************************************************)
(* SpecNested: commands whose body calls withAutoSuspend again.            *)
(***************************************************************************)
NextNested ==
  \/ \E i \in Ops, preempt \in BOOLEAN : withAutoSuspend(i, preempt)
  \/ \E i, parent \in Ops : innerWithAutoSuspend(i, parent)
  \/ \E i \in Ops : queuedStart(i)
  \/ \E i \in Ops : detachDone(i)
  \/ \E i \in Ops : ensureIdleDone(i)
  \/ \E i \in Ops : bodyDone(i)
  \/ \E i \in Ops : restartRepl(i)
  \/ \E i \in Ops : restartDone(i)
  \/ setSerialAutoSuspend
  \/ setPort
  \/ openReplTerminal
  \/ closeReplTerminal

SpecNested ==
  /\ Init /\ [][NextNested]_vars
  /\ \A i \in Ops : WF_vars(queuedStart(i))
  /\ \A i \in Ops : WF_vars(detachDone(i))
  /\ \A i \in Ops : WF_vars(ensureIdleDone(i))
  /\ \A i \in Ops : WF_vars(bodyDone(i))
  /\ \A i \in Ops : WF_vars(restartRepl(i))
  /\ \A i \in Ops : WF_vars(restartDone(i))

(***************************************************************************)
(* C35: a call of withAutoSuspend made by the body of a running operation  *)
(* is chained on the resolved promise, never on the enclosing operation,   *)
(* and an operation whose body made such calls is done in the end.         *)
(***************************************************************************)
C35_InnerCallCannotDeadlock ==
  /\ [](\A i \in Ops : opParent[i] # 0 /\ opPc[i] # "direct" => opPred[i] = 0)
  /\ \A i \in Ops : (opParent[i] # 0) ~> (opParent[i] # 0 /\ opPc[i] = "done" /\ opPc[opParent[i]] = "done")

\* A queued operation made two inner calls, both went through the queue with
\* the REPL open, and all three are done.
C35_Witness ==
  /\ opParent = <<0, 1, 1>>
  /\ \A i \in Ops : opPc[i] = "done" /\ fnCalls[i] = 1 /\ opWasOpen[i]
  /\ opBypass = <<0, 0, 0>>

(***************************************************************************)
(* C34: the skip flag that a view command sets lets only that command's    *)
(* own operation past the queue and the REPL detach, never a later one.    *)
(***************************************************************************)
C34_SkipConsumedByItsCommand ==
  \A i \in Ops : opBypass[i] \in {0, i}

C36_OvertakenListingNotInstalled ==
  [][listPc = "fetched" /\ listPc' # "fetched" => globalFileTreeCache' >= known]_vars

(***************************************************************************)
(* C37: after checkDiffs every board path in the changed set and in the    *)
(* remote-only set lies under the configured remote root: a board file     *)
(* outside the root is neither matched with a local file nor reported.     *)
(***************************************************************************)
C37_OnlyFilesUnderRemoteRoot ==
  diffRuns > 0 =>
    \A p \in diffs \cup boardOnly :
      LET normRoot == stripTrailingSlash(rootPath)
      IN IF normRoot = <<>> THEN TRUE ELSE startsWith(p, normRoot \o <<"/">>)

(***************************************************************************)
(* SpecMarks: the transfers of SpecTransfer, started with markers of an    *)
(* earlier checkDiffs on the decorations.                                  *)
(***************************************************************************)
InitSpecMarks ==
  /\ InitGate /\ InitRun /\ InitCache /\ InitFs
  /\ rootPath \in Roots
  /\ workspace \in [RelPaths -> {Null, MaxSize}]
  /\ unreadable = {}
  /\ ignored = {}
  /\ board = [p \in BoardPaths |-> Null]
  /\ diffRuns = 1
  /\ diffs = {<<"/", "a.py">>}
  /\ localOnly = {<<"/", "lib", "/", "a.py">>}
  /\ boardOnly = {}
  /\ prevDiffs = <<{}, {}, {}>>
  /\ boardDirs = {}
  /\ InitTransfer

SpecMarks == InitSpecMarks /\ [][NextTransfer]_vars

(***************************************************************************)
(* C38: a baseline upload or a diff upload empties the marker sets only    *)
(* when every file of the run was transferred; when a file failed or was   *)
(* skipped, the markers stay as they were.                                 *)
(***************************************************************************)
C38_MarksClearedOnlyAfterFullTransfer ==
  [][(diffs # {} /\ diffs' = {} /\ localOnly' = {}) =>
       IF basePc' = "completed"
       THEN failed' = 0 /\ uploaded' = Len(files')
       ELSE IF loopKind \in Uploads
       THEN \A i \in DOMAIN toTransfer : toTransfer[i] \in loopTransferred'
       ELSE TRUE]_vars

(***************************************************************************)
(* SpecStats: listTreeStats from both of its sources, on every board and   *)
(* root within the bounds.                                                 *)
(***************************************************************************)
InitSpecStats ==
  /\ InitGate /\ InitRun /\ InitCache /\ boardDirs = {} /\ InitTransfer /\ InitFs
  /\ rootPath \in Roots
  /\ workspace = [r \in RelPaths |-> Null]
  /\ unreadable = {}
  /\ ignored = {}
  /\ board \in [BoardPaths -> {Null, MaxSize}]
  /\ InitDiffRuns

NextStats ==
  \/ setPort
  \/ \E source \in {"file", "tree"} : listTreeStatsFrom(source)

SpecStats == InitSpecStats /\ [][NextStats]_vars

(***************************************************************************)
(* C39: on one board, listTreeStats returns the same device paths with the *)
(* same file/directory flags from tree-paths.json and from "fs tree".      *)
(***************************************************************************)
C39_SameStatsFromBothSources ==
  (statsDone = {"file", "tree"} /\ ~statsThrown) =>
    { statsOf.file[i] : i \in DOMAIN statsOf.file }
      = { statsOf.tree[i] : i \in DOMAIN statsOf.tree }

(***************************************************************************)
(* SpecTree: the node cache of the tree view under addNode, removeNode,    *)
(* clearCache and getChildNodes, on boards with and without /lib.          *)
(***************************************************************************)
InitSpecTree ==
  /\ InitGate /\ InitRun /\ InitCache /\ boardDirs = {} /\ InitTransfer /\ InitFs
  /\ rootPath = <<"/">>
  /\ workspace = [r \in RelPaths |-> Null]
  /\ unreadable = {}
  /\ ignored = {}
  /\ board \in { b \in [BoardPaths -> {Null, MaxSize}] :
                   b[<<"/", "tree.py">>] = Null /\ b[<<"/", "app", "/", "a.py">>] = Null
                   /\ b[<<"/", "app", "/", "lib", "/", "a.py">>] = Null }
  /\ InitDiffRuns

NextTree ==
  \/ setPort
  \/ \E path \in TreeNodes : addNode(path, path \in TreeDirs)
  \/ \E path \in TreeNodes : removeNode(path)
  \/ clearCache
  \/ \E dir \in TreeDirs, forceList, ok \in BOOLEAN : getChildNodes(dir, forceList, ok)

SpecTree == InitSpecTree /\ [][NextTree]_vars

(***************************************************************************)
(* C40: every entry of the node cache was set by a listing of its          *)
(* directory, and getChildNodes answers from the cache only for a          *)
(* directory that was listed.                                              *)
(***************************************************************************)
C40_CacheEntriesComeFromListings ==
  /\ \A d \in TreeDirs : nodeCache[d].has => d \in listedDirs
  /\ lastChildren.from = "cache" => lastChildren.listed

====
